---- MODULE Spec2Model ----
(***************************************************************************)
(* State-machine model of the XScr poll cycle (app/scheduler/poller.py),   *)
(* the SQLite store it reads and writes (app/database), and the outcomes   *)
(* of its collaborators: session provider (app/twitter/auth.py), feed      *)
(* source (app/twitter/scraper.py), summarizer (app/summarizer) and        *)
(* notification sink (app/telegram/client.py).                             *)
(*                                                                         *)
(* Conventions:                                                            *)
(*  - an Optional value is a sequence of length <= 1: <<>> is None/NULL;   *)
(*  - a handle is a sequence of character codes (64 "@", 65 "A", 97 "a",   *)
(*    98 "b"), so that lstrip("@") and lower() are computed, not assumed;  *)
(*  - a tweet id is an opaque number (the code keeps it as a digit string);*)
(*  - an exception is an explicit outcome routed through the handler the   *)
(*    code has at that place.                                              *)
(***************************************************************************)
EXTENDS Integers, Sequences, FiniteSets, TLC

VARIABLES
    tracked_handles,    \* table tracked_handles: rows in rowid order
    processed_tweets,   \* table processed_tweets: rows in rowid order
    twitter_session,    \* table twitter_session: <<>> or <<cookies>>
    cyc,                \* per thread: the running invocation of poll_tweets_once
    first_saved,        \* per tweet id: the row of its first successful insert
    delivery_failed,    \* tweet ids whose alert failed in some cycle
    response,           \* what the last call of the interface answered
    survived,           \* tweet ids the store held at the last restart
    save_failed,        \* tweet ids whose save failed in a cycle, not saved since
    alerted,            \* tweet ids whose alert the sink has accepted
    _scheduler,         \* the module global: <<>> (None) or <<scheduler>>
    schedulers          \* the BackgroundScheduler objects created so far

storeVars == <<tracked_handles, processed_tweets, twitter_session>>
ghostVars == <<first_saved, delivery_failed, survived, save_failed, alerted>>
schedVars == <<_scheduler, schedulers>>
vars == <<tracked_handles, processed_tweets, twitter_session, cyc,
          first_saved, delivery_failed, response, survived, save_failed,
          alerted, _scheduler, schedulers>>

----------------------------------------------------------------------------
(* Bounds of the model *)

\* The longest timeline the feed answers with
MaxFeedLen == 2

\* The longest timeline of the cycles that run on two threads
MaxConcFeedLen == 1

\* The most chunks an alert is split into when send_telegram_alert is called
\* on its own
MaxChunks == 2

\* The most lines of a message _split_message is called with on its own
MaxLines == 3

\* Words in a tweet text handed to the extractors
MaxWords == 2

\* BackgroundScheduler objects created in one run of the process
MaxSchedulers == 3

(* Program constants *)

max_tweets == 50
send_max_retries == 3
summarize_max_retries == 3

\* The tweets there are: 1 by "A", 2 by "b"
TweetIds == {1, 2}

\* The threads that can run poll_tweets_once: the BackgroundScheduler's job
\* thread and the caller of the manual trigger (API route, CLI command).
Procs == {"sched", "manual"}

----------------------------------------------------------------------------
(* Handles: str.lstrip("@").lower() and the ordering of ORDER BY handle ASC *)

Lower(ch) == IF ch >= 65 /\ ch <= 90 THEN ch + 32 ELSE ch

LowerStr(s) == [k \in 1..Len(s) |-> Lower(s[k])]

RECURSIVE LStripAt(_)
LStripAt(s) == IF s # <<>> /\ Head(s) = 64 THEN LStripAt(Tail(s)) ELSE s

NormalizeHandle(h) == LowerStr(LStripAt(h))

RECURSIVE StrLess(_, _)
StrLess(s, t) ==
    IF t = <<>> THEN FALSE
    ELSE IF s = <<>> THEN TRUE
    ELSE IF Head(s) # Head(t) THEN Head(s) < Head(t)
    ELSE StrLess(Tail(s), Tail(t))

\* Handles as typed by an operator: "a", "@A", "b"
RawHandles == {<<97>>, <<64, 65>>, <<98>>}

\* Handles as they occur in a timeline link /<handle>/status/<id>: "A", "b"
AuthorOf(id) == IF id % 2 = 1 THEN <<65>> ELSE <<98>>

\* The text the timeline shows for a tweet
TextOf(id) == <<"text", id>>

----------------------------------------------------------------------------
(* app/database/operations.py: each operator is one call on the tables.   *)
(* A result's "raised" is "none" or the exception the call ends with.     *)

HasHandle(tbl, h) == \E k \in 1..Len(tbl) : tbl[k].handle = h

HasTweet(tbl, id) == \E k \in 1..Len(tbl) : tbl[k].tweet_id = id

add_tracked_handle(tbl, raw) ==
    LET handle == NormalizeHandle(raw)
    IN  IF HasHandle(tbl, handle)
        \* UNIQUE(handle) fails the INSERT; the handler names
        \* sqlite3.IntegrityError in a module that does not import sqlite3
        THEN [raised |-> "NameError", table |-> tbl]
        ELSE [raised |-> "none",
              table |-> Append(tbl, [handle |-> handle,
                                     last_seen_tweet_id |-> <<>>])]

\* Mutant: the DELETE matches the handle as given, not normalized
remove_tracked_handle_raw(tbl, raw) ==
    LET kept == SelectSeq(tbl, LAMBDA r : r.handle # raw)
    IN  [raised |-> "none", removed |-> Len(kept) < Len(tbl), table |-> kept]

remove_tracked_handle(tbl, raw) ==
    LET handle == NormalizeHandle(raw)
        kept == SelectSeq(tbl, LAMBDA r : r.handle # handle)
    IN  [raised |-> "none", removed |-> Len(kept) < Len(tbl), table |-> kept]

RECURSIVE InsertSorted(_, _)
InsertSorted(row, rows) ==
    IF rows = <<>> THEN <<row>>
    ELSE IF StrLess(row.handle, Head(rows).handle) THEN <<row>> \o rows
    ELSE <<Head(rows)>> \o InsertSorted(row, Tail(rows))

RECURSIVE SortByHandle(_)
SortByHandle(rows) ==
    IF rows = <<>> THEN <<>>
    ELSE InsertSorted(Head(rows), SortByHandle(Tail(rows)))

\* Mutant: the SELECT has no ORDER BY, the rows come in rowid order
list_tracked_handles_rowid(tbl) == tbl

list_tracked_handles(tbl) == SortByHandle(tbl)

\* Mutant: the UPDATE has no WHERE clause
update_last_seen_tweet_all(tbl, raw, tweet_id) ==
    [k \in 1..Len(tbl) |-> [tbl[k] EXCEPT !.last_seen_tweet_id = <<tweet_id>>]]

update_last_seen_tweet(tbl, raw, tweet_id) ==
    LET handle == NormalizeHandle(raw)
    IN  [k \in 1..Len(tbl) |->
            IF tbl[k].handle = handle
            THEN [tbl[k] EXCEPT !.last_seen_tweet_id = <<tweet_id>>]
            ELSE tbl[k]]

\* Mutant: the SELECT matches the rowid column instead of tweet_id
is_tweet_processed_by_rowid(tbl, tweet_id) == tweet_id \in 1..Len(tbl)

is_tweet_processed(tbl, tweet_id) == HasTweet(tbl, tweet_id)

\* json.dumps of the summary dict
JsonDumps(d) == [json |-> d]

ProcessedRow(tweet_id, raw, tweet_text, summary_json) ==
    [tweet_id |-> tweet_id,
     handle |-> NormalizeHandle(raw),
     tweet_text |-> tweet_text,
     summary_json |-> IF summary_json = <<>> THEN <<>>
                      ELSE <<JsonDumps(summary_json[1])>>]

\* Mutant: INSERT OR REPLACE instead of INSERT
save_processed_tweet_replace(tbl, tweet_id, raw, tweet_text, summary_json) ==
    [raised |-> "none",
     table |-> Append(SelectSeq(tbl, LAMBDA r : r.tweet_id # tweet_id),
                      ProcessedRow(tweet_id, raw, tweet_text, summary_json))]

save_processed_tweet(tbl, tweet_id, raw, tweet_text, summary_json) ==
    IF HasTweet(tbl, tweet_id)
    \* UNIQUE(tweet_id) fails the INSERT: nothing is written
    THEN [raised |-> "IntegrityError", table |-> tbl]
    ELSE [raised |-> "none",
          table |-> Append(tbl, ProcessedRow(tweet_id, raw, tweet_text,
                                             summary_json))]

get_session_cookies(sess) == sess

save_session_cookies(cookies) == <<cookies>>

----------------------------------------------------------------------------
(* app/twitter/auth.py *)

\* The browser login: it returns the cookies after storing them, and turns
\* every failure (the login itself, the store write) into RuntimeError.
authenticate_twitter(sess, login_ok, store_ok) ==
    IF login_ok /\ store_ok
    THEN [raised |-> "none", cookies |-> <<"cookies">>,
          session |-> save_session_cookies("cookies"), via |-> "login"]
    ELSE [raised |-> "RuntimeError", cookies |-> <<>>, session |-> sess,
          via |-> "login"]

ensure_session(sess, read_ok, login_ok, store_ok) ==
    IF ~read_ok
    THEN [raised |-> "OperationalError", cookies |-> <<>>, session |-> sess,
          via |-> "store"]
    ELSE LET cookies == get_session_cookies(sess)
         IN  IF cookies # <<>>
             THEN [raised |-> "none", cookies |-> cookies, session |-> sess,
                   via |-> "store"]
             ELSE authenticate_twitter(sess, login_ok, store_ok)

----------------------------------------------------------------------------
(* app/twitter/scraper.py *)

\* One <article> of the home timeline
Article(id) == [author |-> AuthorOf(id), tweet_id |-> id, text |-> TextOf(id)]

\* What the feed can answer with: how the request ended
FetchStatuses == {"200", "non200", "timeout", "error"}

\* The timelines the feed can show: up to MaxFeedLen articles
Timelines ==
    UNION {[1..n -> {Article(id) : id \in TweetIds}] : n \in 0..MaxFeedLen}

\* Mutant: the filter on the tracked handles is missing
parse_tweet_element_NoFilter(article, tracked) ==
    <<[tweet_id |-> article.tweet_id, handle |-> LowerStr(article.author),
       text |-> article.text]>>

\* None (<<>>) for an article of an untracked handle, else the Tweet
parse_tweet_element(article, tracked) ==
    LET handle == LowerStr(article.author)
    IN  IF handle \notin tracked THEN <<>>
        ELSE <<[tweet_id |-> article.tweet_id, handle |-> handle,
                text |-> article.text]>>

RECURSIVE ParseArticles(_, _)
ParseArticles(articles, tracked) ==
    IF articles = <<>> THEN <<>>
    ELSE parse_tweet_element(Head(articles), tracked)
            \o ParseArticles(Tail(articles), tracked)

\* Every failure of the request is logged and answered with the tweets
\* parsed so far, which are none: the function raises nothing.
fetch_timeline_tweets(cookies, tracked, max, status, articles) ==
    IF status # "200"
    THEN [raised |-> FALSE, tweets |-> <<>>]
    ELSE [raised |-> FALSE,
          tweets |-> ParseArticles(
              SubSeq(articles, 1, IF Len(articles) < max THEN Len(articles)
                                  ELSE max),
              tracked)]

----------------------------------------------------------------------------
(* app/summarizer/llm_client.py *)

\* app/summarizer/schemas.py: the closed value sets of TweetSummary
ActionType ==
    {"buy", "sell", "add", "trim", "short", "cover", "watch", "unknown"}

TimeHorizon == {"intraday", "days", "weeks", "months", "years", "unknown"}

ConfidenceLevel == {"low", "medium", "high"}

\* How model.generate_content(prompt) ends: it raises ("api_error"), or it
\* answers with a text that is empty ("empty"), is not JSON ("not_json") or
\* is a JSON object ("json") with these values; bullets is the length of
\* summary_bullets.
Reply(kind, bullets, action, time_horizon, confidence) ==
    [kind |-> kind, bullets |-> bullets, action |-> action,
     time_horizon |-> time_horizon, confidence |-> confidence]

NoJson(kind) == Reply(kind, 0, "unknown", "unknown", "low")

\* The replies a poll cycle gets: one of each way an attempt can end
CycleReplies ==
    {NoJson("api_error"), NoJson("empty"), NoJson("not_json"),
     Reply("json", 1, "buy", "days", "high")}

LlmReplies ==
    CycleReplies
    \cup {Reply("json", 5, "unknown", "unknown", "low"),
          Reply("json", 6, "buy", "days", "high"),
          Reply("json", 1, "hold", "days", "high"),
          Reply("json", 1, "buy", "decades", "high"),
          Reply("json", 1, "buy", "days", "certain")}

\* Mutant: summary_bullets without max_length
TweetSummary_NoMaxLength(d) ==
    /\ d.action \in ActionType
    /\ d.time_horizon \in TimeHorizon
    /\ d.confidence \in ConfidenceLevel

\* TweetSummary(**summary_dict): whether pydantic accepts the dict
TweetSummary(d) ==
    /\ d.bullets <= 5
    /\ d.action \in ActionType
    /\ d.time_horizon \in TimeHorizon
    /\ d.confidence \in ConfidenceLevel

\* One pass of the loop body: "summary" when it reaches the return, else the
\* branch that ends the attempt
AttemptOutcome(reply) ==
    IF reply.kind = "api_error" THEN "Exception"
    ELSE IF reply.kind = "empty" THEN "continue"
    ELSE IF reply.kind # "json" THEN "JSONDecodeError"
    ELSE IF ~TweetSummary(reply) THEN "Exception"
    ELSE "summary"

\* The TweetSummary parsed from a valid reply for this text
ParsedSummary(tweet_text) == [summary_of |-> tweet_text]

\* What the loop of summarize_tweet sleeps after a failed attempt: the
\* `continue` of the empty response jumps over the backoff at the end of the
\* loop body, the two except clauses fall through to it
BackoffAfter(outcome, attempt, max) ==
    IF outcome # "continue" /\ attempt < max - 1 THEN <<2 ^ attempt>>
    ELSE <<>>

\* waits: the arguments of the time.sleep calls of the backoff, in order
RECURSIVE SummarizeAttempt(_, _, _, _)
SummarizeAttempt(attempt, max, replies, tweet_text) ==
    IF attempt >= max
    THEN [raised |-> FALSE, summary |-> <<>>, attempts |-> attempt,
          waits |-> <<>>]
    ELSE IF AttemptOutcome(replies[attempt + 1]) = "summary"
    THEN [raised |-> FALSE, summary |-> <<ParsedSummary(tweet_text)>>,
          attempts |-> attempt + 1, waits |-> <<>>]
    ELSE LET rest == SummarizeAttempt(attempt + 1, max, replies, tweet_text)
         IN  [rest EXCEPT !.waits =
                 BackoffAfter(AttemptOutcome(replies[attempt + 1]),
                              attempt, max) \o @]

\* setup_ok: whether genai.GenerativeModel(...) before the loop succeeds
summarize_tweet(tweet_text, max, setup_ok, replies) ==
    IF ~setup_ok
    THEN [raised |-> TRUE, summary |-> <<>>, attempts |-> 0, waits |-> <<>>]
    ELSE SummarizeAttempt(0, max, replies, tweet_text)

----------------------------------------------------------------------------
(* app/summarizer/ticker_extractor.py. A text is a string; the regular     *)
(* expressions are computed character by character.                        *)

UpperAlpha == "ABCDEFGHIJKLMNOPQRSTUVWXYZ"

LowerAlpha == "abcdefghijklmnopqrstuvwxyz"

\* The other characters \w matches in the texts of the model
OtherWordChars == "0123456789_"

CharAt(s, i) == SubSeq(s, i, i)

InStr(ch, alphabet) == \E k \in 1..Len(alphabet) : CharAt(alphabet, k) = ch

IsWordChar(ch) ==
    InStr(ch, UpperAlpha) \/ InStr(ch, LowerAlpha) \/ InStr(ch, OtherWordChars)

MapChar(ch, from, to) ==
    IF InStr(ch, from)
    THEN CharAt(to, CHOOSE k \in 1..Len(from) : CharAt(from, k) = ch)
    ELSE ch

RECURSIVE MapStr(_, _, _)
MapStr(s, from, to) ==
    IF s = "" THEN ""
    ELSE MapChar(CharAt(s, 1), from, to)
            \o MapStr(SubSeq(s, 2, Len(s)), from, to)

\* str.lower()
str_lower(s) == MapStr(s, UpperAlpha, LowerAlpha)

\* str.upper()
str_upper(s) == MapStr(s, LowerAlpha, UpperAlpha)

\* \b between the characters i and i+1 of s (i = 0: the start, i = Len(s):
\* the end): one side is a word character and the other is not
WordBoundary(s, i) ==
    LET IsWord(k) == k >= 1 /\ k <= Len(s) /\ IsWordChar(CharAt(s, k))
    IN  IsWord(i) # IsWord(i + 1)

\* Mutant: the keyword is searched as a substring, without the \b
re_search_plain(keyword, s) ==
    \E i \in 1..Len(s) :
        /\ i + Len(keyword) - 1 <= Len(s)
        /\ SubSeq(s, i, i + Len(keyword) - 1) = keyword

\* re.search(r'\b' + re.escape(keyword) + r'\b', s)
re_search_word(keyword, s) ==
    \E i \in 1..Len(s) :
        /\ i + Len(keyword) - 1 <= Len(s)
        /\ SubSeq(s, i, i + Len(keyword) - 1) = keyword
        /\ WordBoundary(s, i - 1)
        /\ WordBoundary(s, i + Len(keyword) - 1)

\* The dict in its insertion order, which is the order of its items()
ACTION_KEYWORDS ==
    <<[action |-> "buy",
       keywords |-> <<"buy", "buying", "bought", "long", "bullish">>],
      [action |-> "sell",
       keywords |-> <<"sell", "selling", "sold", "bearish">>],
      [action |-> "add",
       keywords |-> <<"add", "adding", "added", "accumulate",
                      "accumulating">>],
      [action |-> "trim",
       keywords |-> <<"trim", "trimming", "trimmed", "reduce", "reducing",
                      "reduced">>],
      [action |-> "short",
       keywords |-> <<"short", "shorting", "shorted">>],
      [action |-> "cover",
       keywords |-> <<"cover", "covering", "covered", "closing">>],
      [action |-> "watch",
       keywords |-> <<"watch", "watching", "monitor", "monitoring",
                      "eyeing", "tracking">>]>>

\* for action, keywords in ACTION_KEYWORDS.items(), from entry k on: the
\* action is appended at its first matching keyword, and the break leaves
\* the inner loop
RECURSIVE DetectActions(_, _)
DetectActions(k, text_lower) ==
    IF k > Len(ACTION_KEYWORDS) THEN <<>>
    ELSE LET entry == ACTION_KEYWORDS[k]
             found == \E j \in 1..Len(entry.keywords) :
                          re_search_word(entry.keywords[j], text_lower)
         IN  (IF found THEN <<entry.action>> ELSE <<>>)
                 \o DetectActions(k + 1, text_lower)

extract_action_keywords(text) == DetectActions(1, str_lower(text))

CRYPTO_TICKERS ==
    {"BTC", "ETH", "SOL", "ADA", "DOT", "AVAX", "MATIC", "LINK",
     "UNI", "ATOM", "XRP", "DOGE", "SHIB", "BNB", "USDT", "USDC"}

FALSE_POSITIVES ==
    {"IT", "IS", "IN", "ON", "AT", "TO", "BE", "OR", "AND", "THE",
     "FOR", "ARE", "WAS", "BUT", "NOT", "YOU", "ALL", "CAN", "HER",
     "HIS", "ITS", "OUR", "OUT", "MAY", "SEE", "GET", "HAS", "HAD",
     "DAY", "WAY", "NEW", "NOW", "OLD", "TOP", "BIG", "BAD", "HOT",
     "PM", "AM", "US", "UK", "CEO", "CFO", "CTO", "IPO", "API", "AI",
     "ML", "VC", "PE", "RE", "PR", "HR", "IR", "DD", "YTD", "QoQ"}

\* The length of the run of upper-case letters of s that starts at i
RECURSIVE UpperRun(_, _)
UpperRun(s, i) ==
    IF i <= Len(s) /\ InStr(CharAt(s, i), UpperAlpha)
    THEN 1 + UpperRun(s, i + 1)
    ELSE 0

\* re.findall(r'\$([A-Z]{1,5})\b', s): the groups. The greedy run cannot
\* be cut short, since no \b lies between two letters.
FindSigil(s) ==
    {SubSeq(s, i + 1, i + UpperRun(s, i + 1)) :
        i \in {k \in 1..Len(s) :
                 LET n == UpperRun(s, k + 1)
                 IN  /\ CharAt(s, k) = "$"
                     /\ n >= 1 /\ n <= 5
                     /\ WordBoundary(s, k + n)}}

\* re.findall(r'\(([A-Z]{1,5})\)', s)
FindParens(s) ==
    {SubSeq(s, i + 1, i + UpperRun(s, i + 1)) :
        i \in {k \in 1..Len(s) :
                 LET n == UpperRun(s, k + 1)
                 IN  /\ CharAt(s, k) = "("
                     /\ n >= 1 /\ n <= 5
                     /\ CharAt(s, k + n + 1) = ")"}}

\* re.findall(r'\b([A-Z]{2,5})\b', s)
FindStandalone(s) ==
    {SubSeq(s, i, i + UpperRun(s, i) - 1) :
        i \in {k \in 1..Len(s) :
                 LET n == UpperRun(s, k)
                 IN  /\ n >= 2 /\ n <= 5
                     /\ WordBoundary(s, k - 1)
                     /\ WordBoundary(s, k + n - 1)}}

\* for pattern in TICKER_PATTERNS: re.findall(pattern, text)
TICKER_PATTERNS(s) == FindSigil(s) \cup FindParens(s) \cup FindStandalone(s)

\* str.split() of a text whose only whitespace is the space
RECURSIVE SplitWords(_, _)
SplitWords(s, word) ==
    IF s = "" THEN (IF word = "" THEN <<>> ELSE <<word>>)
    ELSE IF CharAt(s, 1) = " "
    THEN (IF word = "" THEN <<>> ELSE <<word>>)
            \o SplitWords(SubSeq(s, 2, Len(s)), "")
    ELSE SplitWords(SubSeq(s, 2, Len(s)), word \o CharAt(s, 1))

\* The characters word.strip(...) removes at both ends
StripChars == ".,!?;:()[]{}\"'"

RECURSIVE str_strip(_)
str_strip(w) ==
    IF w = "" THEN ""
    ELSE IF InStr(CharAt(w, 1), StripChars)
    THEN str_strip(SubSeq(w, 2, Len(w)))
    ELSE IF InStr(CharAt(w, Len(w)), StripChars)
    THEN str_strip(SubSeq(w, 1, Len(w) - 1))
    ELSE w

\* The order of str on strings of upper-case letters
RECURSIVE TickerLess(_, _)
TickerLess(a, b) ==
    IF b = "" THEN FALSE
    ELSE IF a = "" THEN TRUE
    ELSE IF CharAt(a, 1) = CharAt(b, 1)
    THEN TickerLess(SubSeq(a, 2, Len(a)), SubSeq(b, 2, Len(b)))
    ELSE (CHOOSE k \in 1..26 : CharAt(UpperAlpha, k) = CharAt(a, 1))
            < (CHOOSE k \in 1..26 : CharAt(UpperAlpha, k) = CharAt(b, 1))

\* sorted(list(tickers))
RECURSIVE sorted(_)
sorted(tickers) ==
    IF tickers = {} THEN <<>>
    ELSE LET least == CHOOSE t \in tickers :
                          \A u \in tickers \ {t} : TickerLess(t, u)
         IN  <<least>> \o sorted(tickers \ {least})

extract_tickers(text) ==
    LET matched == {str_upper(m) : m \in TICKER_PATTERNS(text)}
                       \ FALSE_POSITIVES
        words == SplitWords(str_upper(text), "")
        crypto == {str_strip(words[k]) : k \in 1..Len(words)}
                      \cap CRYPTO_TICKERS
    IN  sorted(matched \cup crypto)

----------------------------------------------------------------------------
(* app/telegram/client.py *)

\* Mutant: a successful attempt does not return, the loop runs to its end
RECURSIVE SendAttempt_NoEarlyReturn(_, _, _, _, _)
SendAttempt_NoEarlyReturn(attempt, max, chunks, accepted, taken) ==
    IF attempt >= max
    THEN [raised |-> FALSE, sent |-> FALSE, taken |-> taken,
          attempts |-> attempt, waits |-> <<>>]
    ELSE LET rest == SendAttempt_NoEarlyReturn(
                         attempt + 1, max, chunks, accepted,
                         taken + (IF accepted[attempt + 1] >= chunks
                                  THEN chunks ELSE accepted[attempt + 1]))
         IN  [rest EXCEPT !.sent = @ \/ accepted[attempt + 1] >= chunks,
                          !.waits = (IF accepted[attempt + 1] < chunks
                                        /\ attempt < max - 1
                                     THEN <<2 ^ attempt>> ELSE <<>>) \o @]

\* Mutant: an attempt goes on with the chunks the attempts before it did not
\* get through, and succeeds when the last chunk is taken
RECURSIVE SendAttempt_Resume(_, _, _, _, _)
SendAttempt_Resume(attempt, max, chunks, accepted, taken) ==
    IF attempt >= max
    THEN [raised |-> FALSE, sent |-> FALSE, taken |-> taken,
          attempts |-> attempt, waits |-> <<>>]
    ELSE IF taken + accepted[attempt + 1] >= chunks
    THEN [raised |-> FALSE, sent |-> TRUE, taken |-> chunks,
          attempts |-> attempt + 1, waits |-> <<>>]
    ELSE LET rest == SendAttempt_Resume(attempt + 1, max, chunks, accepted,
                                        taken + accepted[attempt + 1])
         IN  [rest EXCEPT !.waits =
                 (IF attempt < max - 1 THEN <<2 ^ attempt>> ELSE <<>>) \o @]

\* accepted[a] is the number of chunks the sink takes in attempt a before it
\* fails one; the attempt succeeds when it takes all of them.
RECURSIVE SendAttempt(_, _, _, _, _)
SendAttempt(attempt, max, chunks, accepted, taken) ==
    IF attempt >= max
    THEN [raised |-> FALSE, sent |-> FALSE, taken |-> taken,
          attempts |-> attempt, waits |-> <<>>]
    ELSE IF accepted[attempt + 1] >= chunks
    THEN [raised |-> FALSE, sent |-> TRUE, taken |-> taken + chunks,
          attempts |-> attempt + 1, waits |-> <<>>]
    ELSE LET rest == SendAttempt(attempt + 1, max, chunks, accepted,
                                 taken + accepted[attempt + 1])
         IN  [rest EXCEPT !.waits =
                 (IF attempt < max - 1 THEN <<2 ^ attempt>> ELSE <<>>) \o @]

\* format_ok: whether format_tweet_message/_split_message, which run before
\* the retry loop and outside its try, return
send_telegram_alert(max, chunks, format_ok, accepted) ==
    IF ~format_ok
    THEN [raised |-> TRUE, sent |-> FALSE, taken |-> 0, attempts |-> 0,
          waits |-> <<>>]
    ELSE SendAttempt(0, max, chunks, accepted, 0)

\* The alert of one tweet fits one Telegram message
ChunksOf(tweet) == 1

(* Messages. A string is the sequence of its lines, which is what          *)
(* split("\n") gives and is never empty; a line is its length in           *)
(* characters and a tag that stands for its content; the empty line has    *)
(* the tag "". The string arguments of format_tweet_message are given by   *)
(* their lengths, the lists by the lengths of their items.                 *)

MAX_MESSAGE_LENGTH == 4096

Line(tag, len) ==
    IF len = 0 THEN [tag |-> "", len |-> 0] ELSE [tag |-> tag, len |-> len]

RECURSIVE SumLen(_)
SumLen(lines) ==
    IF lines = <<>> THEN 0 ELSE Head(lines).len + SumLen(Tail(lines))

\* len(s)
StrLen(s) == SumLen(s) + Len(s) - 1

RECURSIVE Concat(_)
Concat(strs) == IF strs = <<>> THEN <<>> ELSE Head(strs) \o Concat(Tail(strs))

\* "\n".join(strs)
Join(strs) == IF strs = <<>> THEN <<Line("", 0)>> ELSE Concat(strs)

\* s.split("\n")
SplitNl(s) == [k \in 1..Len(s) |-> <<s[k]>>]

RECURSIVE SumItems(_)
SumItems(items) ==
    IF items = <<>> THEN 0 ELSE Head(items) + SumItems(Tail(items))

\* len(sep.join([prefix + item for item in items])), prefix and sep given by
\* their lengths
JoinedLen(items, prefix, sep) ==
    SumItems(items) + prefix * Len(items) + sep * (Len(items) - 1)

\* Mutant: the slice is missing, every item gets its line
FirstThree_All(items) == items

\* items[:3]
FirstThree(items) == SubSeq(items, 1, IF Len(items) < 3 THEN Len(items) ELSE 3)

\* One line "• item" per item
BulletLines(tag, items) == [k \in 1..Len(items) |-> Line(tag, items[k] + 2)]

\* <<line>> if the condition holds, else no line
LineIf(cond, line) == IF cond THEN <<line>> ELSE <<>>

format_tweet_message(handle, tweet_text, tweet_url, summary, fallback_tickers, fallback_actions) ==
    LET display_text == IF tweet_text > 500 THEN 500 + 3 ELSE tweet_text
        lines == <<Line("header", 20 + handle),
                   Line("link", 16 + tweet_url),
                   Line("", 0),
                   Line("raw_tweet", 14),
                   Line("display_text", display_text),
                   Line("", 0)>>
    IN  IF summary # <<>>
        THEN LET sm == summary[1]
             IN  lines
                 \o <<Line("ai_summary", 15)>>
                 \o BulletLines("bullet", sm.summary_bullets)
                 \o <<Line("", 0)>>
                 \o LineIf(sm.tickers # <<>>,
                           Line("tickers", 13 + JoinedLen(sm.tickers, 1, 2)))
                 \o LineIf(sm.action # "unknown",
                           Line("action", 12 + Len(sm.action)))
                 \o LineIf(sm.time_horizon # "unknown",
                           Line("horizon", 14 + Len(sm.time_horizon)))
                 \o <<Line("confidence", 16 + Len(sm.confidence)),
                      Line("", 0)>>
                 \o (IF sm.risks_or_unknowns # <<>>
                     THEN <<Line("risks", 11)>>
                          \o BulletLines("risk",
                                         FirstThree(sm.risks_or_unknowns))
                          \o <<Line("", 0)>>
                     ELSE <<>>)
                 \o (IF sm.what_to_verify # <<>>
                     THEN <<Line("verify", 11)>>
                          \o BulletLines("item", FirstThree(sm.what_to_verify))
                     ELSE <<>>)
        ELSE lines
             \o <<Line("fallback_notice", 55)>>
             \o LineIf(fallback_tickers # <<>>,
                       Line("detected_tickers",
                            22 + JoinedLen(fallback_tickers, 1, 2)))
             \o LineIf(fallback_actions # <<>>,
                       Line("detected_actions",
                            22 + JoinedLen(fallback_actions, 0, 2)))

\* The loop of _split_message over the lines
RECURSIVE SplitLoop(_, _, _, _)
SplitLoop(lines, chunks, current_chunk, current_length) ==
    IF lines = <<>>
    THEN IF current_chunk # <<>> THEN Append(chunks, Join(current_chunk))
         ELSE chunks
    ELSE LET line == Head(lines)
             line_length == StrLen(line) + 1
         IN  IF current_length + line_length > MAX_MESSAGE_LENGTH
             THEN SplitLoop(Tail(lines), Append(chunks, Join(current_chunk)),
                            <<line>>, line_length)
             ELSE SplitLoop(Tail(lines), chunks, Append(current_chunk, line),
                            current_length + line_length)

_split_message(message) ==
    IF StrLen(message) <= MAX_MESSAGE_LENGTH THEN <<message>>
    ELSE SplitLoop(SplitNl(message), <<>>, <<>>, 0)

----------------------------------------------------------------------------
(* app/scheduler/poller.py: poll_tweets_once                               *)
(*                                                                         *)
(* The record of one invocation: pc is the call it is about to make, stats *)
(* the dict it returns at pc = "done", obs what each call of the cycle     *)
(* (list, session, fetch) and of tweet number obs.at of the feed, the last *)
(* one the loop entered (dedup, summ, notif, save, upd), ended with;       *)
(* "none" while not made.                                                  *)

NewStats ==
    [tweets_fetched |-> 0, tweets_processed |-> 0,
     tweets_skipped_duplicate |-> 0, alerts_sent |-> 0, errors |-> 0]

NoObs ==
    [list |-> "none", session |-> "none", fetch |-> "none", at |-> 0,
     dedup |-> "none", summ |-> "none", notif |-> "none", save |-> "none",
     upd |-> "none"]

IdleCycle ==
    [pc |-> "idle", handles |-> <<>>, cookies |-> <<>>, tweets |-> <<>>,
     i |-> 0, summary |-> <<>>, stats |-> NewStats, obs |-> NoObs]

NewCycle == [IdleCycle EXCEPT !.pc = "list"]

Bump(c, counter) == [c EXCEPT !.stats[counter] = @ + 1]

Saw(c, call, outcome) == [c EXCEPT !.obs[call] = outcome]

\* return stats
Finish(c) == [c EXCEPT !.pc = "done"]

\* for tweet in tweets: the next tweet, or the end of the loop
NextTweet(c) ==
    IF c.i < Len(c.tweets)
    THEN [c EXCEPT !.i = @ + 1, !.pc = "dedup", !.summary = <<>>]
    ELSE Finish(c)

\* The loop body is entered for tweet c.i
EnterTweet(c) ==
    [c EXCEPT !.obs.at = c.i, !.obs.dedup = "none", !.obs.summ = "none",
              !.obs.notif = "none", !.obs.save = "none", !.obs.upd = "none"]

\* Mutant: no try/except around the cycle, the exception leaves the function
OnFatal_Propagate(c) == [c EXCEPT !.pc = "raised"]

\* except Exception around the whole cycle
OnFatal(c) == Finish(Bump(c, "errors"))

\* Mutant: the early return is missing
OnNoHandles_Continue(c) == [c EXCEPT !.pc = "session"]

\* if not handles: return stats
OnNoHandles(c) == Finish(c)

OnHandles(c, handles) == [c EXCEPT !.handles = handles, !.pc = "session"]

\* Mutant: the handler counts the error and goes on to the fetch
OnSessionError_Continue(c) == [Bump(c, "errors") EXCEPT !.pc = "fetch"]

\* Mutant: the exception leaves poll_tweets_once and ends the job
OnSessionError_Propagate(c) == [c EXCEPT !.pc = "raised"]

\* except Exception around ensure_session
OnSessionError(c) == Finish(Bump(c, "errors"))

OnSession(c, cookies) == [c EXCEPT !.cookies = cookies, !.pc = "fetch"]

\* except Exception around fetch_timeline_tweets
OnFetchError(c) == Finish(Bump(c, "errors"))

\* Mutant: stats["tweets_fetched"] is not set
OnFetched_NoCount(c, tweets) == NextTweet([c EXCEPT !.tweets = tweets, !.i = 0])

\* stats["tweets_fetched"] = len(tweets), then the loop
OnFetched(c, tweets) ==
    NextTweet([c EXCEPT !.tweets = tweets,
                        !.stats.tweets_fetched = Len(tweets), !.i = 0])

\* except Exception around one tweet: count and continue
OnTweetError(c) == NextTweet(Bump(c, "errors"))

\* Mutant: the continue is missing, a duplicate is processed like a new tweet
OnDuplicate_FallThrough(c) ==
    [Bump(c, "tweets_skipped_duplicate") EXCEPT !.pc = "summarize"]

\* if is_tweet_processed(...): count and continue
OnDuplicate(c) == NextTweet(Bump(c, "tweets_skipped_duplicate"))

OnNewTweet(c) == [c EXCEPT !.pc = "summarize"]

\* Mutant: a summarization without result is counted as an error
OnSummarized_CountsError(c, r) ==
    [(IF r.raised \/ r.summary = <<>> THEN Bump(c, "errors") ELSE c)
        EXCEPT !.summary = IF r.raised THEN <<>> ELSE r.summary,
               !.pc = "notify"]

\* summary = None; try: summary = summarize_tweet(...) except: log
OnSummarized(c, r) ==
    [c EXCEPT !.summary = IF r.raised THEN <<>> ELSE r.summary,
              !.pc = "notify"]

\* if sent: stats["alerts_sent"] += 1
OnSendReturned(c, sent) ==
    [(IF sent THEN Bump(c, "alerts_sent") ELSE c) EXCEPT !.pc = "save"]

\* Mutant: the handler gives the tweet up, like the handler of the loop body
OnSendError_SkipSave(c) == NextTweet(Bump(c, "errors"))

\* except Exception around send_telegram_alert
OnSendError(c) == [Bump(c, "errors") EXCEPT !.pc = "save"]

\* Mutant: the counter is not incremented
OnSaved_NoCount(c) == [c EXCEPT !.pc = "update"]

OnSaved(c) == [Bump(c, "tweets_processed") EXCEPT !.pc = "update"]

\* Mutant: the handler also counts the tweet as processed
OnSaveError_CountsProcessed(c) ==
    NextTweet(Bump(Bump(c, "errors"), "tweets_processed"))

\* except Exception around save_processed_tweet and update_last_seen_tweet
OnSaveError(c) == NextTweet(Bump(c, "errors"))

OnUpdated(c) == NextTweet(c)

CurTweet(c) == c.tweets[c.i]

\* The tweet obs.dedup .. obs.upd are about
ObsTweet(c) == c.tweets[c.obs.at]

Running(p) == cyc[p].pc # "idle"

Quiet == \A p \in Procs : ~Running(p)

NoResponse == [kind |-> "none"]

\* PollStatsResponse(**stats): the model takes the five int fields by name
PollStatsResponse(stats) ==
    [tweets_fetched |-> stats.tweets_fetched,
     tweets_processed |-> stats.tweets_processed,
     tweets_skipped_duplicate |-> stats.tweets_skipped_duplicate,
     alerts_sent |-> stats.alerts_sent,
     errors |-> stats.errors]

\* Mutant: a cycle that counted errors is answered with a failure
trigger_manual_poll_strict(stats) ==
    IF stats.errors > 0 THEN [kind |-> "HTTP500"]
    ELSE [kind |-> "stats", stats |-> PollStatsResponse(stats)]

\* What the caller of poll_tweets_once answers with: the route builds the
\* response model from the dict, the CLI command prints its five entries
trigger_manual_poll(stats) ==
    [kind |-> "stats", stats |-> PollStatsResponse(stats)]

\* BackgroundScheduler(): not started, no job
BackgroundScheduler == [running |-> FALSE, jobs |-> <<>>]

\* scheduler.add_job(..., id=id, replace_existing=True)
add_job(s, id) ==
    IF \E k \in 1..Len(s.jobs) : s.jobs[k] = id THEN s
    ELSE [s EXCEPT !.jobs = Append(@, id)]

\* scheduler.start()
start(s) == [s EXCEPT !.running = TRUE]

\* scheduler.shutdown()
shutdown(s) == [s EXCEPT !.running = FALSE]

\* Mutant: the check of the global is missing, every call creates a scheduler
start_background_poller_NoCheck(handle, objects) ==
    [handle |-> <<Len(objects) + 1>>,
     objects |-> Append(objects,
                        [running |-> TRUE, jobs |-> <<"poll_tweets">>]),
     returned |-> Len(objects) + 1]

\* handle is the global _scheduler, objects the schedulers there are; a
\* scheduler is named by its place in objects
start_background_poller(handle, objects) ==
    IF handle # <<>>
    THEN [handle |-> handle, objects |-> objects, returned |-> handle[1]]
    ELSE [handle |-> <<Len(objects) + 1>>,
          objects |-> Append(objects,
                             start(add_job(BackgroundScheduler,
                                           "poll_tweets"))),
          returned |-> Len(objects) + 1]

stop_scheduler(handle, objects) ==
    IF handle # <<>>
    THEN [handle |-> <<>>,
          objects |-> [objects EXCEPT ![handle[1]] = shutdown(@)]]
    ELSE [handle |-> handle, objects |-> objects]

----------------------------------------------------------------------------
(* Actions *)

Init ==
    /\ tracked_handles = <<>>
    /\ processed_tweets = <<>>
    /\ twitter_session = <<>>
    /\ cyc = [p \in Procs |-> IdleCycle]
    /\ first_saved = [id \in TweetIds |-> <<>>]
    /\ delivery_failed = {}
    /\ response = NoResponse
    /\ survived = {}
    /\ save_failed = {}
    /\ alerted = {}
    /\ _scheduler = <<>>
    /\ schedulers = <<>>

\* POST /tracks, cli add
AddHandle(raw) ==
    /\ \E io_ok \in BOOLEAN :
         LET r == IF io_ok THEN add_tracked_handle(tracked_handles, raw)
                  ELSE [raised |-> "OperationalError",
                        table |-> tracked_handles]
         IN  /\ tracked_handles' = r.table
             /\ response' = [kind |-> IF r.raised = "none" THEN "added"
                                       ELSE r.raised]
    /\ UNCHANGED <<processed_tweets, twitter_session, cyc, ghostVars, schedVars>>

\* DELETE /tracks/{handle}, cli remove
RemoveHandle(raw) ==
    /\ \E io_ok \in BOOLEAN :
         LET r == IF io_ok THEN remove_tracked_handle(tracked_handles, raw)
                  ELSE [raised |-> "OperationalError", removed |-> FALSE,
                        table |-> tracked_handles]
         IN  /\ tracked_handles' = r.table
             /\ response' = [kind |-> IF r.raised # "none" THEN r.raised
                                       ELSE IF r.removed THEN "removed"
                                       ELSE "not_found"]
    /\ UNCHANGED <<processed_tweets, twitter_session, cyc, ghostVars, schedVars>>

\* poll_tweets_once() is called on thread p
StartCycle(p) ==
    /\ cyc[p].pc = "idle"
    /\ cyc' = [cyc EXCEPT ![p] = NewCycle]
    /\ response' = NoResponse
    /\ UNCHANGED <<storeVars, ghostVars, schedVars>>

\* handles = list_tracked_handles()
ListStep(p) ==
    /\ cyc[p].pc = "list"
    /\ \E io_ok \in BOOLEAN :
         LET c == cyc[p]
             handles == list_tracked_handles(tracked_handles)
         IN  cyc' = [cyc EXCEPT ![p] =
                 IF ~io_ok THEN OnFatal(Saw(c, "list", "raised"))
                 ELSE IF handles = <<>>
                 THEN OnNoHandles(Saw(c, "list", "empty"))
                 ELSE OnHandles(Saw(c, "list", "some"), handles)]
    /\ UNCHANGED <<storeVars, ghostVars, schedVars, response>>

\* cookies = ensure_session()
SessionStep(p) ==
    /\ cyc[p].pc = "session"
    /\ \E read_ok, login_ok, store_ok \in BOOLEAN :
         LET c == cyc[p]
             r == ensure_session(twitter_session, read_ok, login_ok, store_ok)
         IN  /\ twitter_session' = r.session
             /\ cyc' = [cyc EXCEPT ![p] =
                   IF r.raised # "none"
                   THEN OnSessionError(Saw(c, "session", "raised"))
                   ELSE OnSession(Saw(c, "session", r.via), r.cookies)]
    /\ UNCHANGED <<tracked_handles, processed_tweets, ghostVars, schedVars, response>>

\* tracked_handle_set = {...}; tweets = fetch_timeline_tweets(...)
FetchStep(p) ==
    /\ cyc[p].pc = "fetch"
    /\ \E status \in FetchStatuses, articles \in Timelines :
         LET c == cyc[p]
             tracked_handle_set ==
                 {LowerStr(c.handles[k].handle) : k \in 1..Len(c.handles)}
             r == fetch_timeline_tweets(c.cookies, tracked_handle_set,
                                        max_tweets, status, articles)
         IN  cyc' = [cyc EXCEPT ![p] =
                 IF r.raised THEN OnFetchError(Saw(c, "fetch", "raised"))
                 ELSE OnFetched(Saw(c, "fetch", status), r.tweets)]
    /\ UNCHANGED <<storeVars, ghostVars, schedVars, response>>

\* if is_tweet_processed(tweet.tweet_id): ...; then the fallback extraction,
\* which is pure and cannot fail
DedupStep(p) ==
    /\ cyc[p].pc = "dedup"
    /\ \E io_ok \in BOOLEAN :
         LET c == EnterTweet(cyc[p])
         IN  cyc' = [cyc EXCEPT ![p] =
                 IF ~io_ok THEN OnTweetError(Saw(c, "dedup", "raised"))
                 ELSE IF is_tweet_processed(processed_tweets,
                                            CurTweet(c).tweet_id)
                 THEN OnDuplicate(Saw(c, "dedup", "duplicate"))
                 ELSE OnNewTweet(Saw(c, "dedup", "new"))]
    /\ UNCHANGED <<storeVars, ghostVars, schedVars, response>>

\* summary = summarize_tweet(tweet.text, tweet.handle)
SummarizeStep(p) ==
    /\ cyc[p].pc = "summarize"
    /\ \E setup_ok \in BOOLEAN,
          replies \in [1..summarize_max_retries -> CycleReplies] :
         LET c == cyc[p]
             r == summarize_tweet(CurTweet(c).text, summarize_max_retries,
                                  setup_ok, replies)
             outcome == IF r.raised THEN "raised"
                        ELSE IF r.summary = <<>> THEN "none_returned"
                        ELSE "summary"
         IN  cyc' = [cyc EXCEPT ![p] = OnSummarized(Saw(c, "summ", outcome), r)]
    /\ UNCHANGED <<storeVars, ghostVars, schedVars, response>>

\* sent = send_telegram_alert(...)
NotifyStep(p) ==
    /\ cyc[p].pc = "notify"
    /\ \E format_ok \in BOOLEAN,
          accepted \in [1..send_max_retries -> 0..ChunksOf(CurTweet(cyc[p]))] :
         LET c == cyc[p]
             id == CurTweet(c).tweet_id
             r == send_telegram_alert(send_max_retries, ChunksOf(CurTweet(c)),
                                      format_ok, accepted)
         IN  /\ cyc' = [cyc EXCEPT ![p] =
                   IF r.raised THEN OnSendError(Saw(c, "notif", "raised"))
                   ELSE OnSendReturned(
                            Saw(c, "notif", IF r.sent THEN "sent" ELSE "failed"),
                            r.sent)]
             /\ delivery_failed' = IF r.raised \/ ~r.sent
                                   THEN delivery_failed \cup {id}
                                   ELSE delivery_failed
             /\ alerted' = IF ~r.raised /\ r.sent THEN alerted \cup {id}
                           ELSE alerted
    /\ UNCHANGED <<storeVars, first_saved, survived, save_failed, response,
                   schedVars>>

\* save_processed_tweet(...); stats["tweets_processed"] += 1
SaveStep(p) ==
    /\ cyc[p].pc = "save"
    /\ \E io_ok \in BOOLEAN :
         LET c == cyc[p]
             t == CurTweet(c)
             r == IF io_ok
                  THEN save_processed_tweet(processed_tweets, t.tweet_id,
                                            t.handle, t.text, c.summary)
                  ELSE [raised |-> "OperationalError",
                        table |-> processed_tweets]
         IN  /\ processed_tweets' = r.table
             /\ cyc' = [cyc EXCEPT ![p] =
                   IF r.raised # "none" THEN OnSaveError(Saw(c, "save", r.raised))
                   ELSE OnSaved(Saw(c, "save", "saved"))]
             /\ first_saved' =
                   IF r.raised = "none" /\ first_saved[t.tweet_id] = <<>>
                   THEN [first_saved EXCEPT
                            ![t.tweet_id] = <<r.table[Len(r.table)]>>]
                   ELSE first_saved
             /\ save_failed' = IF r.raised # "none"
                               THEN save_failed \cup {t.tweet_id}
                               ELSE save_failed \ {t.tweet_id}
    /\ UNCHANGED <<tracked_handles, twitter_session, delivery_failed,
                   survived, response, alerted, schedVars>>

\* update_last_seen_tweet(tweet.handle, tweet.tweet_id)
UpdateStep(p) ==
    /\ cyc[p].pc = "update"
    /\ \E io_ok \in BOOLEAN :
         LET c == cyc[p]
             t == CurTweet(c)
         IN  /\ tracked_handles' =
                   IF io_ok
                   THEN update_last_seen_tweet(tracked_handles, t.handle,
                                               t.tweet_id)
                   ELSE tracked_handles
             /\ cyc' = [cyc EXCEPT ![p] =
                   IF io_ok THEN OnUpdated(Saw(c, "upd", "updated"))
                   ELSE OnSaveError(Saw(c, "upd", "raised"))]
    /\ UNCHANGED <<processed_tweets, twitter_session, ghostVars, schedVars, response>>

\* poll_tweets_once has returned: the caller (the manual trigger, the
\* scheduler's job runner) holds the stats dict
ReturnStep(p) ==
    /\ cyc[p].pc = "done"
    /\ cyc' = [cyc EXCEPT ![p] = IdleCycle]
    /\ response' = trigger_manual_poll(cyc[p].stats)
    /\ UNCHANGED <<storeVars, ghostVars, schedVars>>

\* The process is stopped and started again: what is in memory is gone,
\* the database file stays.
Restart ==
    /\ cyc' = [p \in Procs |-> IdleCycle]
    /\ response' = NoResponse
    /\ survived' = {processed_tweets[k].tweet_id :
                        k \in 1..Len(processed_tweets)}
    /\ UNCHANGED <<storeVars, first_saved, delivery_failed, save_failed,
                   alerted, schedVars>>

\* save_processed_tweet called directly, as tests/test_deduplication.py does
SaveCall(tweet_id, raw, tweet_text, summary_json) ==
    /\ Quiet
    /\ \E io_ok \in BOOLEAN :
         LET r == IF io_ok
                  THEN save_processed_tweet(processed_tweets, tweet_id, raw,
                                            tweet_text, summary_json)
                  ELSE [raised |-> "OperationalError",
                        table |-> processed_tweets]
         IN  /\ processed_tweets' = r.table
             /\ first_saved' =
                   IF r.raised = "none" /\ first_saved[tweet_id] = <<>>
                   THEN [first_saved EXCEPT
                            ![tweet_id] = <<r.table[Len(r.table)]>>]
                   ELSE first_saved
             /\ response' =
                   [kind |-> "save", tweet_id |-> tweet_id,
                    existed |-> HasTweet(processed_tweets, tweet_id),
                    attempted |-> ProcessedRow(tweet_id, raw, tweet_text,
                                               summary_json),
                    raised |-> r.raised]
    /\ UNCHANGED <<tracked_handles, twitter_session, cyc, delivery_failed,
                   survived, save_failed, alerted, schedVars>>

\* is_tweet_processed called directly
IsProcessedCall(tweet_id) ==
    /\ Quiet
    /\ response' = [kind |-> "is_processed", tweet_id |-> tweet_id,
                    result |-> is_tweet_processed(processed_tweets, tweet_id)]
    /\ UNCHANGED <<storeVars, cyc, ghostVars, schedVars>>

\* The texts a caller saves for a tweet id: the timeline's, or another one
TextsOf(id) == {TextOf(id), <<"text", 0>>}

CycleStep(p) ==
    \/ ListStep(p)
    \/ SessionStep(p)
    \/ FetchStep(p)
    \/ DedupStep(p)
    \/ SummarizeStep(p)
    \/ NotifyStep(p)
    \/ SaveStep(p)
    \/ UpdateStep(p)

\* One thread at a time: the management calls and the cycles of a
\* deployment that never runs two of them at once.
Next ==
    \/ \E raw \in RawHandles : Quiet /\ AddHandle(raw)
    \/ \E raw \in RawHandles : Quiet /\ RemoveHandle(raw)
    \/ StartCycle("sched")
    \/ CycleStep("sched")
    \/ ReturnStep("sched")
    \/ Restart

Spec == Init /\ [][Next]_vars

\* The interval trigger of the job added by start_background_poller fires
\* again and again, and a running poll_tweets_once goes on to its return.
SpecFair ==
    /\ Spec
    /\ WF_vars(StartCycle("sched"))
    /\ WF_vars(CycleStep("sched"))
    /\ WF_vars(ReturnStep("sched"))

\* What a cycle has seen when the database file and the login answer: no
\* call on the store and no login has raised for lack of I/O
NoOutage(c) ==
    /\ c.obs.list # "raised"
    /\ c.obs.session # "raised"
    /\ c.obs.dedup # "raised"
    /\ c.obs.save # "OperationalError"
    /\ c.obs.upd # "raised"

\* A step of thread p's cycle, on a timeline of at most MaxConcFeedLen
\* articles and with no outage
ConcStep(p) ==
    /\ CycleStep(p)
    /\ NoOutage(cyc'[p])
    /\ Len(cyc'[p].tweets) <= MaxConcFeedLen

\* Any interleaving of the scheduler's job thread and the manual trigger's
\* thread within one run of the process; each database call is one
\* transaction. The scheduler runs one instance of its job at a time, and so
\* does the caller of the manual trigger; one account is tracked at a time.
NextConc ==
    \/ \E raw \in RawHandles :
          Quiet /\ tracked_handles = <<>> /\ AddHandle(raw)
    \/ \E raw \in RawHandles : Quiet /\ RemoveHandle(raw)
    \/ \E p \in Procs : StartCycle(p)
    \/ \E p \in Procs : ConcStep(p)
    \/ \E p \in Procs : ReturnStep(p)

SpecConc == Init /\ [][NextConc]_vars

\* start_background_poller() is called
StartPoller ==
    /\ _scheduler # <<>> \/ Len(schedulers) < MaxSchedulers
    /\ LET r == start_background_poller(_scheduler, schedulers)
       IN  /\ _scheduler' = r.handle
           /\ schedulers' = r.objects
           /\ response' = [kind |-> "scheduler", returned |-> r.returned]
    /\ UNCHANGED <<storeVars, cyc, ghostVars>>

\* stop_scheduler() is called; shutdown() waits for the job that is running
StopScheduler ==
    /\ cyc["sched"].pc = "idle"
    /\ LET r == stop_scheduler(_scheduler, schedulers)
       IN  /\ _scheduler' = r.handle
           /\ schedulers' = r.objects
    /\ response' = [kind |-> "stopped"]
    /\ UNCHANGED <<storeVars, cyc, ghostVars>>

\* Some scheduler is running with the poll job: its interval trigger fires
IntervalTrigger ==
    \E k \in 1..Len(schedulers) :
        schedulers[k].running /\ schedulers[k].jobs # <<>>

\* The process starts and stops its poller; the job runs while a scheduler
\* is live. One account is tracked, the feed has at most MaxConcFeedLen
\* articles, no outage.
NextSched ==
    \/ \E raw \in RawHandles :
          Quiet /\ tracked_handles = <<>> /\ AddHandle(raw)
    \/ StartPoller
    \/ StopScheduler
    \/ IntervalTrigger /\ StartCycle("sched")
    \/ ConcStep("sched")
    \/ ReturnStep("sched")

SpecSched == Init /\ [][NextSched]_vars

\* The processed_tweets operations called one after another, across restarts
NextStore ==
    \/ \E id \in TweetIds, raw \in RawHandles, summary \in BOOLEAN :
          \E tweet_text \in TextsOf(id) :
             SaveCall(id, raw, tweet_text,
                      IF summary THEN <<ParsedSummary(tweet_text)>> ELSE <<>>)
    \/ \E id \in TweetIds : IsProcessedCall(id)
    \/ Restart

SpecStore == Init /\ [][NextStore]_vars

\* fetch_timeline_tweets called on its own for the handles tracked now, with
\* max_tweets given by the caller
FetchCall(max, status, articles) ==
    /\ Quiet
    /\ LET tracked == {LowerStr(tracked_handles[k].handle) :
                          k \in 1..Len(tracked_handles)}
           r == fetch_timeline_tweets(<<"cookies">>, tracked, max, status,
                                      articles)
       IN  response' = [kind |-> "fetch", tracked |-> tracked, max |-> max,
                        status |-> status, articles |-> articles,
                        raised |-> r.raised, tweets |-> r.tweets]
    /\ UNCHANGED <<storeVars, cyc, ghostVars, schedVars>>

\* The poll cycles of the scheduler in one run of the process, and the feed
\* source called directly
NextFetch ==
    \/ \E raw \in RawHandles : Quiet /\ AddHandle(raw)
    \/ \E raw \in RawHandles : Quiet /\ RemoveHandle(raw)
    \/ StartCycle("sched")
    \/ CycleStep("sched")
    \/ ReturnStep("sched")
    \/ \E max \in 0..MaxFeedLen, status \in {"200", "timeout"},
          articles \in Timelines :
          FetchCall(max, status, articles)

SpecFetch == Init /\ [][NextFetch]_vars

\* summarize_tweet called on its own, with max_retries given by the caller
SummarizeCall(max, setup_ok, replies) ==
    /\ Quiet
    /\ response' = [kind |-> "summarize", max |-> max, replies |-> replies,
                    result |-> summarize_tweet(TextOf(1), max, setup_ok,
                                               replies)]
    /\ UNCHANGED <<storeVars, cyc, ghostVars, schedVars>>

\* send_telegram_alert called on its own, for an alert of so many chunks,
\* and what the statements of poll_tweets_once around the call make of its
\* result in the stats of a new cycle
SendCall(max, chunks, format_ok, accepted) ==
    /\ Quiet
    /\ LET r == send_telegram_alert(max, chunks, format_ok, accepted)
           c == IF r.raised THEN OnSendError(NewCycle)
                ELSE OnSendReturned(NewCycle, r.sent)
       IN  response' = [kind |-> "send", max |-> max, chunks |-> chunks,
                        accepted |-> accepted, result |-> r,
                        alerts_sent |-> c.stats.alerts_sent]
    /\ UNCHANGED <<storeVars, cyc, ghostVars, schedVars>>

\* The two retry wrappers called one after another
NextRetry ==
    \/ \E max \in 0..summarize_max_retries, setup_ok \in BOOLEAN :
          \E replies \in [1..max -> LlmReplies] :
             SummarizeCall(max, setup_ok, replies)
    \/ \E max \in 0..send_max_retries, chunks \in 1..MaxChunks,
          format_ok \in BOOLEAN :
          \E accepted \in [1..max -> 0..chunks] :
             SendCall(max, chunks, format_ok, accepted)

SpecRetry == Init /\ [][NextRetry]_vars

\* The summaries format_tweet_message is called with
Summaries ==
    [summary_bullets : {<<40>>, <<40, 5000>>, <<4000, 4000>>},
     tickers : {<<>>, <<4, 3>>},
     action : {"buy", "unknown"},
     time_horizon : {"days", "unknown"},
     confidence : {"high"},
     risks_or_unknowns : {<<>>, <<30, 30, 30, 30>>},
     what_to_verify : {<<>>, <<30>>, <<30, 30, 30, 30>>}]

\* The lengths of the lines of the messages _split_message is called with
LineLens == {0, 10, 4095, 4096, 5000}

LineTags == <<"l1", "l2", "l3", "l4", "l5">>

\* The messages of up to MaxLines lines
Messages ==
    UNION {{[k \in 1..n |-> Line(LineTags[k], lens[k])] :
               lens \in [1..n -> LineLens]} : n \in 1..MaxLines}

\* format_tweet_message called on its own, and its result split
FormatCall(handle, tweet_text, tweet_url, summary, fallback_tickers, fallback_actions) ==
    /\ Quiet
    /\ LET message == format_tweet_message(handle, tweet_text, tweet_url,
                                           summary, fallback_tickers,
                                           fallback_actions)
       IN  response' = [kind |-> "format", tweet_text |-> tweet_text,
                        summary |-> summary,
                        fallback_tickers |-> fallback_tickers,
                        fallback_actions |-> fallback_actions,
                        message |-> message,
                        chunks |-> _split_message(message)]
    /\ UNCHANGED <<storeVars, cyc, ghostVars, schedVars>>

\* _split_message called on its own
SplitCall(message) ==
    /\ Quiet
    /\ response' = [kind |-> "split", message |-> message,
                    chunks |-> _split_message(message)]
    /\ UNCHANGED <<storeVars, cyc, ghostVars, schedVars>>

NextMessage ==
    \/ \E tweet_text \in {100, 600}, summary \in Summaries :
          FormatCall(5, tweet_text, 40, <<summary>>, <<4>>, <<3, 4>>)
    \/ \E tweet_text \in {100, 500, 501, 600},
          fallback_tickers \in {<<>>, <<4>>},
          fallback_actions \in {<<>>, <<3, 4>>} :
          FormatCall(5, tweet_text, 40, <<>>, fallback_tickers,
                     fallback_actions)
    \/ \E message \in Messages : SplitCall(message)

SpecMessage == Init /\ [][NextMessage]_vars

\* The words the tweet texts of the model are made of
Vocabulary ==
    {"buy", "Buying", "BOUGHT", "buyback", "long", "selling", "short-term",
     "watch", "the", "$TSLA", "$tsla", "(AAPL)", "btc", "BTC.", "NVDA",
     "IT", "$F"}

\* Texts of 1..MaxWords words with one space between two words
RECURSIVE JoinWords(_)
JoinWords(ws) ==
    IF Len(ws) = 1 THEN ws[1] ELSE ws[1] \o " " \o JoinWords(Tail(ws))

Texts ==
    {JoinWords(ws) : ws \in UNION {[1..n -> Vocabulary] : n \in 1..MaxWords}}

\* extract_action_keywords called on its own, as tests/test_action_detection.py
\* does. The function is pure: a behaviour makes one call, which depends on
\* no call before it.
ActionsCall(text) ==
    /\ Quiet /\ response = NoResponse
    /\ response' = [kind |-> "actions", text |-> text,
                    actions |-> extract_action_keywords(text)]
    /\ UNCHANGED <<storeVars, cyc, ghostVars, schedVars>>

\* extract_tickers called on its own, as tests/test_ticker_extraction.py does
TickersCall(text) ==
    /\ Quiet /\ response = NoResponse
    /\ response' = [kind |-> "tickers", text |-> text,
                    tickers |-> extract_tickers(text)]
    /\ UNCHANGED <<storeVars, cyc, ghostVars, schedVars>>

NextExtract ==
    \/ \E text \in Texts : ActionsCall(text)
    \/ \E text \in Texts : TickersCall(text)

SpecExtract == Init /\ [][NextExtract]_vars

----------------------------------------------------------------------------
(* Claims *)

Stored(id) == HasTweet(processed_tweets, id)

Stats(f, p, s, a, e) ==
    [tweets_fetched |-> f, tweets_processed |-> p,
     tweets_skipped_duplicate |-> s, alerts_sent |-> a, errors |-> e]

SendFailed(c) == c.obs.notif \in {"raised", "failed"}

StoreFailed(c) == c.obs.save = "OperationalError" \/ c.obs.upd = "raised"

\* One tracked account, a feed of one tweet, the cycle has returned
OnePostCycle(c) ==
    /\ c.pc = "done"
    /\ Len(c.handles) = 1
    /\ c.obs.fetch = "200"
    /\ Len(c.tweets) = 1
    /\ c.obs.at = 1

\* C1: a delivery failure never causes a resend. When the alert of a new
\* tweet fails (send_telegram_alert raises or returns False) the cycle goes
\* on to save the tweet, and the save, unless it fails itself, records it;
\* once a tweet whose alert failed is recorded, no cycle is ever again about
\* to summarize or to notify it.
C1_DeliveryFailureNoResend ==
    \A p \in Procs :
        LET c == cyc[p]
        IN  /\ SendFailed(c) => (c.pc = "save" \/ c.obs.save # "none")
            /\ (SendFailed(c) /\ c.obs.save = "saved")
                  => Stored(ObsTweet(c).tweet_id)
            /\ c.pc \in {"summarize", "notify"}
                  => ~(CurTweet(c).tweet_id \in delivery_failed
                       /\ Stored(CurTweet(c).tweet_id))

\* A cycle with a one-tweet feed skips, as a duplicate, a tweet whose alert
\* failed in an earlier cycle
C1_Witness ==
    \E p \in Procs :
        LET c == cyc[p]
        IN  /\ c.pc = "done"
            /\ Len(c.tweets) = 1
            /\ c.obs.at = 1
            /\ c.obs.dedup = "duplicate"
            /\ c.obs.summ = "none"
            /\ c.obs.notif = "none"
            /\ ObsTweet(c).tweet_id \in delivery_failed

\* C2: when the send of a new tweet's alert fails after its retries, the
\* cycle counts one error and no alert: one tracked account, one new tweet
\* and a summary give fetched=1, processed=1, skipped=0, alerts_sent=0,
\* errors=1.
C2_FailedSendCountsError ==
    \A p \in Procs :
        LET c == cyc[p]
        IN  (/\ OnePostCycle(c)
             /\ c.obs.dedup = "new"
             /\ c.obs.summ = "summary"
             /\ c.obs.notif = "failed"
             /\ ~StoreFailed(c))
            => c.stats = Stats(1, 1, 0, 0, 1)

\* C3: is_tweet_processed answers true for exactly the ids a
\* save_processed_tweet has succeeded for, in every state: in the same
\* cycle, in later cycles and after a restart; the loop's dedup check takes
\* a tweet for a duplicate only if it was saved, and for new only if not.
C3_ProcessedIsDurable ==
    /\ \A id \in TweetIds :
          is_tweet_processed(processed_tweets, id) = (first_saved[id] # <<>>)
    /\ \A p \in Procs :
          LET c == cyc[p]
          IN  /\ c.obs.dedup = "duplicate"
                    => first_saved[ObsTweet(c).tweet_id] # <<>>
              /\ (c.obs.dedup = "new" /\ c.pc \in {"summarize", "notify", "save"})
                    => first_saved[ObsTweet(c).tweet_id] = <<>>

\* The dedup check finds a tweet that was saved before the last restart
C3_Witness ==
    \E p \in Procs :
        LET c == cyc[p]
        IN  /\ c.obs.dedup = "duplicate"
            /\ ObsTweet(c).tweet_id \in survived

RowsOf(id) == SelectSeq(processed_tweets, LAMBDA r : r.tweet_id = id)

\* C4: a save for an id that is already stored raises (IntegrityError when
\* the database is reached), adds no second row and leaves the first row as
\* it is: the table holds at most one row per tweet id, and it is the row of
\* the first successful save.
C4_SaveIsInsertOnce ==
    /\ \A id \in TweetIds :
          /\ Len(RowsOf(id)) <= 1
          /\ RowsOf(id) = first_saved[id]
    /\ (response.kind = "save" /\ response.existed)
          => /\ response.raised # "none"
             /\ response.raised # "OperationalError"
                   => response.raised = "IntegrityError"

\* A second save of a stored id, with other contents, has raised
C4_Witness ==
    /\ response.kind = "save"
    /\ response.existed
    /\ response.raised = "IntegrityError"
    /\ response.attempted.tweet_text # first_saved[response.tweet_id][1].tweet_text
    /\ response.attempted.summary_json
          # first_saved[response.tweet_id][1].summary_json
    /\ response.attempted.handle # first_saved[response.tweet_id][1].handle

PcValues ==
    {"idle", "list", "session", "fetch", "dedup", "summarize", "notify",
     "save", "update", "done"}

StatKeys ==
    {"tweets_fetched", "tweets_processed", "tweets_skipped_duplicate",
     "alerts_sent", "errors"}

PcRank(pc) ==
    CASE pc = "dedup" -> 5
      [] pc = "summarize" -> 4
      [] pc = "notify" -> 3
      [] pc = "save" -> 2
      [] pc = "update" -> 1
      [] OTHER -> 0

\* An upper bound of the calls an invocation still has to make
CallsLeft(c) ==
    CASE c.pc \in {"idle", "done"} -> 0
      [] c.pc = "list" -> 5 * max_tweets + 3
      [] c.pc = "session" -> 5 * max_tweets + 2
      [] c.pc = "fetch" -> 5 * max_tweets + 1
      [] OTHER -> 5 * (Len(c.tweets) - c.i) + PcRank(c.pc)

C5_State ==
    \A p \in Procs :
        LET c == cyc[p]
        IN  /\ c.pc \in PcValues
            /\ DOMAIN c.stats = StatKeys
            /\ \A k \in StatKeys : c.stats[k] \in Nat
            /\ c.pc \notin {"idle", "done"} => ENABLED CycleStep(p)

C5_Progress ==
    \A p \in Procs :
        (cyc'[p] # cyc[p] /\ cyc[p].pc \notin {"idle", "done"}
            /\ cyc'[p].pc # "idle")
        => CallsLeft(cyc'[p]) < CallsLeft(cyc[p])

\* C5: poll_tweets_once never raises. Whatever the store, the session
\* provider, the feed, the summarizer and the sink do, the invocation is
\* never left by an exception, always has a next call it can make until it
\* returns, makes a bounded number of them, and returns the five counters.
C5_NeverRaises == [](C5_State) /\ [][C5_Progress]_vars

\* A cycle has returned after three or more failures
C5_Witness ==
    \E p \in Procs : cyc[p].pc = "done" /\ cyc[p].stats.errors >= 3

\* C6: with no tracked account the cycle returns five zeros, calls neither
\* the session provider nor the feed source and makes no call that writes
\* to the store.
C6_NoHandlesNoOp ==
    \A p \in Procs :
        LET c == cyc[p]
        IN  c.obs.list = "empty"
            => /\ c.pc = "done"
               /\ c.stats = Stats(0, 0, 0, 0, 0)
               /\ c.obs.session = "none"
               /\ c.obs.fetch = "none"
               /\ c.obs.at = 0
               /\ c.obs.save = "none"
               /\ c.obs.upd = "none"

C6_Witness ==
    \E p \in Procs : cyc[p].obs.list = "empty" /\ cyc[p].pc = "done"

\* C7: one tracked account, a feed of one tweet that is not processed yet,
\* summary and alert succeed (and the store does not fail): the cycle returns
\* fetched=1, processed=1, skipped=0, alerts_sent=1, errors=0, the tweet is
\* stored with its serialized summary, and the account's last_seen_tweet_id
\* is the tweet's id.
C7_OneNewPost ==
    \A p \in Procs :
        LET c == cyc[p]
        IN  (/\ OnePostCycle(c)
             /\ c.obs.dedup = "new"
             /\ c.obs.summ = "summary"
             /\ c.obs.notif = "sent"
             /\ ~StoreFailed(c))
            => /\ c.stats = Stats(1, 1, 0, 1, 0)
               /\ RowsOf(ObsTweet(c).tweet_id)
                     = <<[tweet_id |-> ObsTweet(c).tweet_id,
                          handle |-> ObsTweet(c).handle,
                          tweet_text |-> ObsTweet(c).text,
                          summary_json |->
                              <<JsonDumps(ParsedSummary(ObsTweet(c).text))>>]>>
               /\ Len(tracked_handles) = 1
               /\ tracked_handles[1].handle = ObsTweet(c).handle
               /\ tracked_handles[1].last_seen_tweet_id
                     = <<ObsTweet(c).tweet_id>>

C7_Witness ==
    \E p \in Procs :
        LET c == cyc[p]
        IN  /\ OnePostCycle(c)
            /\ c.obs.dedup = "new"
            /\ c.obs.summ = "summary"
            /\ c.obs.notif = "sent"
            /\ ~StoreFailed(c)

C8_State ==
    \A p \in Procs :
        LET c == cyc[p]
        IN  /\ c.obs.dedup = "duplicate"
                => /\ c.obs.summ = "none"
                   /\ c.obs.notif = "none"
                   /\ c.obs.save = "none"
                   /\ c.obs.upd = "none"
                   /\ c.pc \in {"dedup", "done"}
            /\ (OnePostCycle(c) /\ c.obs.dedup = "duplicate")
                => c.stats = Stats(1, 0, 1, 0, 0)

C8_Step ==
    \A p \in Procs :
        (/\ cyc[p].pc = "dedup"
         /\ cyc'[p] # cyc[p]
         /\ cyc'[p].obs.dedup = "duplicate")
        => /\ cyc'[p].stats =
                 [cyc[p].stats EXCEPT !.tweets_skipped_duplicate = @ + 1]
           /\ UNCHANGED storeVars

\* C8: a tweet of the feed that the store already holds only raises the
\* duplicate-skip counter: no summarization, no notification and no store
\* write is made for it; a feed of one such tweet gives fetched=1,
\* processed=0, skipped=1, alerts_sent=0, errors=0.
C8_DuplicateOnlySkips == [](C8_State) /\ [][C8_Step]_vars

C8_Witness ==
    \E p \in Procs :
        OnePostCycle(cyc[p]) /\ cyc[p].obs.dedup = "duplicate"

\* C9: when the feed source fails (a response other than 200, a timeout, any
\* exception while fetching) the cycle counts an error and ends early.
C9_FeedFailureCounted ==
    \A p \in Procs :
        LET c == cyc[p]
        IN  c.obs.fetch \in {"non200", "timeout", "error"}
            => /\ c.stats.errors >= 1
               /\ c.pc = "done"
               /\ c.obs.at = 0

\* C10: when ensure_session raises, the cycle counts one error, does not
\* call the feed source, enters the loop for no tweet and returns with every
\* other counter at zero.
C10_SessionFailureAborts ==
    \A p \in Procs :
        LET c == cyc[p]
        IN  c.obs.session = "raised"
            => /\ c.pc = "done"
               /\ c.stats = Stats(0, 0, 0, 0, 1)
               /\ c.obs.fetch = "none"
               /\ c.obs.at = 0

C10_Witness ==
    \E p \in Procs : cyc[p].obs.session = "raised" /\ cyc[p].pc = "done"

\* A call made for tweet obs.at, other than the summarization, has failed
StepFailed(c) ==
    \/ c.obs.dedup = "raised"
    \/ c.obs.notif \in {"raised", "failed"}
    \/ c.obs.save \notin {"none", "saved"}
    \/ c.obs.upd = "raised"

\* The loop is done with tweet obs.at
LeftTweet(c) == c.obs.at >= 1 /\ (c.pc = "done" \/ c.i > c.obs.at)

\* C11: one bad post never aborts the cycle. When the dedup check, the
\* notification, the save or the marker update of a post fails, the cycle has
\* counted an error by the time it leaves the post, and a cycle that fetched
\* n posts has entered the loop body, whose first call is the dedup check,
\* for all n of them when it returns. (A summarization without result is the
\* soft condition of C17 and is left out here.)
C11_BadPostNeverAborts ==
    \A p \in Procs :
        LET c == cyc[p]
        IN  /\ (StepFailed(c) /\ LeftTweet(c)) => c.stats.errors >= 1
            /\ (c.pc = "done" /\ c.obs.fetch # "none")
                  => c.obs.at = Len(c.tweets)

SaveRaised(c) == c.obs.save \notin {"none", "saved"}

C12_State ==
    /\ \A id \in save_failed : ~Stored(id)
    /\ \A p \in Procs :
          SaveRaised(cyc[p]) => ~Stored(ObsTweet(cyc[p]).tweet_id)

\* The step in which the save of a new tweet fails
C12_FailStep ==
    \A p \in Procs :
        (/\ cyc[p].pc = "save"
         /\ cyc'[p] # cyc[p]
         /\ SaveRaised(cyc'[p]))
        => /\ cyc'[p].stats = [cyc[p].stats EXCEPT !.errors = @ + 1]
           /\ processed_tweets' = processed_tweets
           /\ CurTweet(cyc[p]).tweet_id \in save_failed'

\* The steps a later cycle makes for a tweet whose save failed
C12_RetryStep ==
    \A p \in Procs :
        (/\ cyc[p].pc \in {"dedup", "summarize", "notify"}
         /\ CurTweet(cyc[p]).tweet_id \in save_failed
         /\ cyc'[p] # cyc[p]
         /\ cyc'[p].pc # "idle")
        => /\ cyc[p].pc = "dedup"
                => \/ cyc'[p].obs.dedup = "raised"
                   \/ cyc'[p].obs.dedup = "new" /\ cyc'[p].pc = "summarize"
           /\ cyc[p].pc = "summarize"
                => cyc'[p].obs.summ # "none" /\ cyc'[p].pc = "notify"
           /\ cyc[p].pc = "notify"
                => cyc'[p].obs.notif # "none" /\ cyc'[p].pc = "save"

\* C12: when the save of a new tweet fails, the cycle counts one error and
\* changes no other counter (tweets_processed stays), the store is left as it
\* was and does not hold the tweet; as long as no save has succeeded for it,
\* a cycle whose feed shows the tweet again takes it for new at the dedup
\* check (unless the check itself fails) and summarizes and notifies it again.
C12_SaveFailureRetried ==
    [](C12_State) /\ [][C12_FailStep /\ C12_RetryStep]_vars

\* A later cycle has summarized and notified again, and is about to save, a
\* tweet whose save failed in an earlier cycle
C12_Witness ==
    \E p \in Procs :
        LET c == cyc[p]
        IN  /\ c.pc = "save"
            /\ c.obs.at = 1
            /\ c.obs.dedup = "new"
            /\ c.obs.summ # "none"
            /\ c.obs.notif # "none"
            /\ CurTweet(c).tweet_id \in save_failed

\* poll_tweets_once is in progress on thread p
InProgress(p) == cyc[p].pc \notin {"idle", "done"}

\* C13: cycles never overlap. At no time is poll_tweets_once in progress on
\* more than one thread, whether the interval scheduler or the manual trigger
\* started it.
C13_CyclesNeverOverlap ==
    Cardinality({p \in Procs : InProgress(p)}) <= 1

\* Attempt k of the summarization reaches its return statement
SummOk(k) == AttemptOutcome(response.replies[k]) = "summary"

\* Attempt k of the send gets every chunk accepted
SendOk(k) == response.accepted[k] >= response.chunks

C14_Summarize ==
    LET r == response.result
        max == response.max
    IN  (response.kind = "summarize" /\ ~r.raised)
        => /\ r.attempts <= max
           /\ r.summary # <<>>
                 => /\ r.attempts >= 1
                    /\ SummOk(r.attempts)
                    /\ \A k \in 1..(r.attempts - 1) : ~SummOk(k)
           /\ r.summary = <<>>
                 => r.attempts = max /\ \A k \in 1..max : ~SummOk(k)

C14_Send ==
    LET r == response.result
        max == response.max
    IN  (response.kind = "send" /\ ~r.raised)
        => /\ r.attempts <= max
           /\ r.sent
                 => /\ r.attempts >= 1
                    /\ SendOk(r.attempts)
                    /\ \A k \in 1..(r.attempts - 1) : ~SendOk(k)
           /\ ~r.sent
                 => r.attempts = max /\ \A k \in 1..max : ~SendOk(k)

\* C14: summarize_tweet and send_telegram_alert make at most max_retries
\* attempts; the first attempt that succeeds is the last one made and the
\* call returns its success; when all max_retries attempts fail the call
\* returns None, respectively False.
C14_RetryLoopsBounded == C14_Summarize /\ C14_Send

\* A send that failed once, succeeded at the second of three attempts and
\* stopped there
C14_Witness ==
    /\ response.kind = "send"
    /\ response.max = send_max_retries
    /\ ~SendOk(1)
    /\ SendOk(2)
    /\ SendOk(3)
    /\ response.result.sent
    /\ response.result.attempts = 2

\* C15: the retry wrappers never propagate an exception: whatever fails while
\* summarize_tweet or send_telegram_alert runs, the setup before the first
\* attempt and the message formatting included, the call returns its failure
\* value.
C15_WrappersNeverRaise ==
    response.kind \in {"summarize", "send"} => ~response.result.raised

\* The reply cannot be parsed into a TweetSummary: it is empty, is not JSON,
\* has an action, time_horizon or confidence outside the closed sets, or has
\* more than 5 summary bullets
Unparsable(reply) ==
    \/ reply.kind \in {"empty", "not_json"}
    \/ /\ reply.kind = "json"
       /\ \/ reply.action \notin {"buy", "sell", "add", "trim", "short",
                                 "cover", "watch", "unknown"}
          \/ reply.time_horizon \notin {"intraday", "days", "weeks", "months",
                                       "years", "unknown"}
          \/ reply.confidence \notin {"low", "medium", "high"}
          \/ reply.bullets > 5

\* C16: a summarization attempt whose output cannot be parsed is a failed
\* attempt within the budget: the call does not return at it, goes on to the
\* next attempt if one is left, and never returns a summary made from such
\* output.
C16_ParseFailureRetried ==
    LET r == response.result
        max == response.max
    IN  (response.kind = "summarize" /\ ~r.raised)
        => /\ r.attempts <= max
           /\ r.summary # <<>> => ~Unparsable(response.replies[r.attempts])
           /\ \A k \in 1..r.attempts :
                 Unparsable(response.replies[k])
                    => r.attempts > k \/ (k = max /\ r.summary = <<>>)

\* Six bullets, then an action outside the enum, then a valid reply: the
\* third attempt gives the summary
C16_Witness ==
    /\ response.kind = "summarize"
    /\ response.max = summarize_max_retries
    /\ response.replies[1].kind = "json" /\ response.replies[1].bullets > 5
    /\ response.replies[2].kind = "json"
    /\ response.replies[2].action \notin ActionType
    /\ ~Unparsable(response.replies[3])
    /\ response.result.summary # <<>>
    /\ response.result.attempts = 3

\* C18: every chunk _split_message returns for a message that
\* format_tweet_message has produced is at most MAX_MESSAGE_LENGTH (4096)
\* characters long, and none is empty.
C18_ChunksWithinLimit ==
    response.kind = "format"
    => \A k \in 1..Len(response.chunks) :
          /\ StrLen(response.chunks[k]) <= 4096
          /\ StrLen(response.chunks[k]) > 0

\* C19: joining the chunks _split_message returns with a newline gives the
\* message back: the same lines, each whole and once, in their order.
C19_SplitRoundTrip ==
    response.kind = "split" => Join(response.chunks) = response.message

\* The summarization of tweet obs.at returned None or raised
NoSummary(c) == c.obs.summ \in {"raised", "none_returned"}

\* The tags of the lines of the alert send_telegram_alert formats for the
\* tweet the cycle is at, with some fallback tickers and actions
AlertTags(c) ==
    LET message == format_tweet_message(Len(CurTweet(c).handle), 100, 40,
                                        c.summary, <<4>>, <<3>>)
    IN  {message[k].tag : k \in 1..Len(message)}

C17_State ==
    \A p \in Procs :
        LET c == cyc[p]
        IN  NoSummary(c)
            => /\ c.pc = "notify" \/ c.obs.notif # "none"
               /\ c.pc = "notify"
                     => /\ c.summary = <<>>
                        /\ {"fallback_notice", "detected_tickers",
                            "detected_actions"} \subseteq AlertTags(c)
                        /\ "ai_summary" \notin AlertTags(c)
               /\ c.obs.save = "saved"
                     => /\ Len(RowsOf(ObsTweet(c).tweet_id)) = 1
                        /\ RowsOf(ObsTweet(c).tweet_id)[1].summary_json = <<>>

C17_Step ==
    \A p \in Procs :
        (/\ cyc[p].pc = "summarize"
         /\ cyc'[p] # cyc[p]
         /\ NoSummary(cyc'[p]))
        => cyc'[p].stats = cyc[p].stats

\* C17: the absence of a summary is no error of the cycle. When
\* summarize_tweet returns None or raises, no counter changes, the cycle goes
\* on to the notification, whose message is the fallback one with the
\* detected tickers and actions, and a save that succeeds stores the tweet
\* with a NULL summary.
C17_NoSummaryIsNoError == [](C17_State) /\ [][C17_Step]_vars

\* A one-tweet cycle whose summarization raised has sent the alert, saved the
\* tweet and counted no error
C17_Witness ==
    \E p \in Procs :
        LET c == cyc[p]
        IN  /\ OnePostCycle(c)
            /\ c.obs.summ = "raised"
            /\ c.obs.notif = "sent"
            /\ c.obs.save = "saved"
            /\ c.stats = Stats(1, 1, 0, 1, 0)

\* The handle has no leading "@" and no upper-case letter
IsNormalized(h) ==
    /\ h = <<>> \/ Head(h) # 64
    /\ \A k \in 1..Len(h) : ~(h[k] >= 65 /\ h[k] <= 90)

C20_AddStep ==
    \A raw \in RawHandles :
        AddHandle(raw)
        => LET handle == NormalizeHandle(raw)
           IN  IF HasHandle(tracked_handles, handle)
               THEN /\ response'.kind \in {"ValueError", "OperationalError"}
                    /\ tracked_handles' = tracked_handles
               ELSE response'.kind = "added"
                    => /\ IsNormalized(handle)
                       /\ tracked_handles' =
                             Append(tracked_handles,
                                    [handle |-> handle,
                                     last_seen_tweet_id |-> <<>>])

\* C20: adding a handle stores its normalized form (leading "@" stripped,
\* lower-cased); adding a handle whose normalized form is already tracked is
\* rejected with ValueError (unless the database cannot be reached) and
\* leaves the tracked set unchanged.
C20_AddNormalizesRejectsDuplicate == [][C20_AddStep]_vars

\* The rows are in strictly ascending handle order
Ascending(rows) ==
    \A k \in 1..(Len(rows) - 1) : StrLess(rows[k].handle, rows[k + 1].handle)

\* The two sequences hold the same rows
SameRows(rows1, rows2) ==
    /\ Len(rows1) = Len(rows2)
    /\ {rows1[k] : k \in 1..Len(rows1)} = {rows2[k] : k \in 1..Len(rows2)}

\* C21: after any sequence of add, remove, last-seen update and list
\* operations no two tracked accounts have the same handle, every stored
\* handle is normalized (lower-case, no leading "@"), and list returns the
\* stored accounts, all of them, in ascending handle order; so does the list
\* a running cycle holds.
C21_TrackedStoreInvariant ==
    /\ \A j, k \in 1..Len(tracked_handles) :
          tracked_handles[j].handle = tracked_handles[k].handle => j = k
    /\ \A k \in 1..Len(tracked_handles) :
          IsNormalized(tracked_handles[k].handle)
    /\ Ascending(list_tracked_handles(tracked_handles))
    /\ SameRows(list_tracked_handles(tracked_handles), tracked_handles)
    /\ \A p \in Procs : Ascending(cyc[p].handles)

\* Two accounts stored against the handle order ("b" added before "a"), one
\* of them with a last-seen marker, and a cycle that has listed them
C21_Witness ==
    /\ Len(tracked_handles) = 2
    /\ StrLess(tracked_handles[2].handle, tracked_handles[1].handle)
    /\ \E k \in 1..2 : tracked_handles[k].last_seen_tweet_id # <<>>
    /\ \E p \in Procs : Len(cyc[p].handles) = 2

C22_RemoveStep ==
    \A raw \in RawHandles :
        RemoveHandle(raw)
        => LET handle == NormalizeHandle(raw)
               others == SelectSeq(tracked_handles,
                                   LAMBDA r : r.handle # handle)
           IN  /\ response'.kind \in {"removed", "not_found",
                                      "OperationalError"}
               /\ response'.kind = "OperationalError"
                     => tracked_handles' = tracked_handles
               /\ response'.kind = "removed"
                     => /\ HasHandle(tracked_handles, handle)
                        /\ tracked_handles' = others
               /\ response'.kind = "not_found"
                     => /\ ~HasHandle(tracked_handles, handle)
                        /\ tracked_handles' = tracked_handles
               /\ ~HasHandle(tracked_handles', handle)
                     \/ response'.kind = "OperationalError"

\* C22: remove_tracked_handle returns True exactly when the normalized handle
\* was tracked and deletes that account only; for a handle that is not
\* tracked, as after a first remove, it returns False, changes nothing and
\* does not raise (a call only raises when the database cannot be reached).
C22_RemoveIdempotent == [][C22_RemoveStep]_vars

\* A remove has deleted one of two accounts and left the other
C22_Witness ==
    /\ response.kind = "removed"
    /\ Len(tracked_handles) = 1

\* The last-seen marker of the account, <<"untracked">> if it is not tracked
MarkerOf(tbl, handle) ==
    IF HasHandle(tbl, handle)
    THEN (CHOOSE r \in {tbl[k] : k \in 1..Len(tbl)} :
              r.handle = handle).last_seen_tweet_id
    ELSE <<"untracked">>

StoredHandles == {tracked_handles[k].handle : k \in 1..Len(tracked_handles)}

\* Thread p is at the call that follows a successful save of a tweet by
\* this account
JustSaved(p, handle) ==
    /\ cyc[p].pc = "update"
    /\ cyc[p].obs.save = "saved"
    /\ CurTweet(cyc[p]).handle = handle
    /\ Stored(CurTweet(cyc[p]).tweet_id)

C23_Step ==
    /\ \A handle \in StoredHandles :
          (/\ HasHandle(tracked_handles', handle)
           /\ MarkerOf(tracked_handles', handle)
                 # MarkerOf(tracked_handles, handle))
          => \E p \in Procs :
                /\ JustSaved(p, handle)
                /\ cyc'[p].obs.upd = "updated"
                /\ MarkerOf(tracked_handles', handle)
                      = <<CurTweet(cyc[p]).tweet_id>>
    /\ \A p \in Procs :
          (/\ cyc'[p] # cyc[p]
           /\ \/ cyc'[p].obs.dedup = "duplicate" /\ cyc[p].pc = "dedup"
              \/ SaveRaised(cyc'[p]) /\ cyc[p].pc = "save")
          => tracked_handles' = tracked_handles

\* C23: the last-seen marker of a tracked account changes only in the step
\* of a cycle that follows the successful save of a post by that account,
\* and becomes that post's id; the markers of the other accounts stay; a post
\* skipped as a duplicate and a post whose save failed change no marker.
C23_MarkerOnlyAfterSave == [][C23_Step]_vars

\* Two tracked accounts, a cycle has just saved a tweet and updated the
\* marker of its author; the other account has no marker
C23_Witness ==
    /\ Len(tracked_handles) = 2
    /\ \E p \in Procs :
          LET c == cyc[p]
          IN  /\ c.obs.upd = "updated"
              /\ MarkerOf(tracked_handles, ObsTweet(c).handle)
                    = <<ObsTweet(c).tweet_id>>
              /\ \E h \in StoredHandles :
                    h # ObsTweet(c).handle /\ MarkerOf(tracked_handles, h) = <<>>

\* C24: when the save of a post meets a conflict (another execution has
\* stored the id between this cycle's dedup check and its insert), the cycle
\* treats the post as already skipped: it counts no error for it and goes
\* on. Stated for a feed of one post whose alert did not raise, where no
\* other error can have been counted.
C24_ConflictIsNoError ==
    \A p \in Procs :
        LET c == cyc[p]
        IN  (/\ c.obs.save = "IntegrityError"
             /\ c.obs.notif # "raised"
             /\ Len(c.tweets) = 1)
            => c.stats.errors = 0

C25_ReturnStep ==
    \A p \in Procs :
        (cyc[p].pc = "done" /\ cyc'[p] # cyc[p] /\ response'.kind # "none")
        => /\ response'.kind = "stats"
           /\ response'.stats = cyc[p].stats
           /\ cyc'[p].pc = "idle"

C25_State ==
    /\ response.kind \notin {"HTTP500", "raised"}
    /\ response.kind = "stats" => DOMAIN response.stats = StatKeys

\* C25: the manual trigger runs one cycle to its end and answers with that
\* cycle's five counters as poll_tweets_once returned them; a cycle that
\* counted errors is answered the same way, never with a failure response.
C25_ManualTriggerReturnsStats == [](C25_State) /\ [][C25_ReturnStep]_vars

\* The answer to a trigger whose cycle processed a tweet and counted errors
C25_Witness ==
    /\ response.kind = "stats"
    /\ response.stats.errors >= 1
    /\ response.stats.tweets_processed >= 1

\* The cycle of the scheduler has failed to get a session or the feed
CycleLevelFailure ==
    \/ cyc["sched"].obs.session = "raised"
    \/ cyc["sched"].obs.fetch \in {"non200", "timeout", "error", "raised"}

\* A new cycle has just been started by the trigger
CycleStarted == cyc["sched"] = NewCycle

\* C26: a cycle that failed to acquire the session or the feed ends, and
\* the next interval trigger starts a new cycle: from every such failure a
\* freshly started cycle of the scheduler follows.
C26_NextCycleStillRuns == CycleLevelFailure ~> CycleStarted

\* A cycle ended by a failed ensure_session, one error counted
C26_Witness ==
    /\ cyc["sched"].pc = "done"
    /\ cyc["sched"].obs.session = "raised"
    /\ cyc["sched"].stats.errors = 1

\* The feed has answered the cycle's cookies with a status other than 200
\* (the 401 of an invalid session among them)
FeedRejected == cyc["sched"].obs.fetch = "non200"

\* ensure_session has just handed cookies to the cycle
SessionHanded ==
    cyc["sched"].pc = "fetch" /\ cyc["sched"].obs.session \in {"store", "login"}

\* ensure_session has authenticated anew, or the feed has accepted cookies
SessionRenewed ==
    \/ cyc["sched"].obs.session = "login"
    \/ cyc["sched"].obs.fetch = "200"

\* C27: once the feed has rejected the stored session, and as long as
\* cycles keep asking ensure_session for one, some later call authenticates
\* anew (or the feed accepts the cookies again): the same rejected cookies
\* are not handed out forever.
C27_StaleSessionRenewed ==
    ([]<>SessionHanded) => (FeedRejected ~> SessionRenewed)

\* The maximal runs of word characters of s, the run in progress being word
RECURSIVE WordTokens(_, _)
WordTokens(s, word) ==
    IF s = "" THEN (IF word = "" THEN {} ELSE {word})
    ELSE IF IsWordChar(CharAt(s, 1))
    THEN WordTokens(SubSeq(s, 2, Len(s)), word \o CharAt(s, 1))
    ELSE (IF word = "" THEN {} ELSE {word})
            \cup WordTokens(SubSeq(s, 2, Len(s)), "")

\* The categories one of whose keywords is a whole word of the text,
\* whatever the case of its letters
CategoriesIn(text) ==
    {k \in 1..Len(ACTION_KEYWORDS) :
        \E j \in 1..Len(ACTION_KEYWORDS[k].keywords),
           w \in WordTokens(text, "") :
            str_lower(w) = ACTION_KEYWORDS[k].keywords[j]}

ActionOrder == <<"buy", "sell", "add", "trim", "short", "cover", "watch">>

\* C28: extract_action_keywords returns the tags of exactly the categories
\* that have a keyword standing as a whole word in the text, compared
\* without regard to case, each tag once and in the order buy, sell, add,
\* trim, short, cover, watch; a text without such a word gives the empty
\* list ("buyback" alone gives no buy).
C28_ActionTagsOncePerCategoryInOrder ==
    response.kind = "actions" =>
        LET tags == response.actions
            cats == CategoriesIn(response.text)
        IN  /\ \A k \in 1..Len(ActionOrder) :
                  (k \in cats) <=>
                      (\E n \in 1..Len(tags) : tags[n] = ActionOrder[k])
            /\ \A m, n \in 1..Len(tags) :
                  m < n =>
                      \E a, b \in 1..Len(ActionOrder) :
                          a < b /\ tags[m] = ActionOrder[a]
                                /\ tags[n] = ActionOrder[b]
            /\ cats = {} => tags = <<>>
            /\ response.text = "buyback" => tags = <<>>

\* A sell keyword before a buy keyword in upper case: the tags come in the
\* order of the categories
C28_Witness ==
    /\ response.kind = "actions"
    /\ response.text = "selling BOUGHT"
    /\ response.actions = <<"buy", "sell">>

\* s occurs in text
Occurs(s, text) == re_search_plain(s, text)

\* The three surface forms: the symbol behind the sigil, the symbol in
\* parentheses, a symbol of the crypto allow-list; the text is compared
\* upper-cased, as the symbols are
SurfaceForm(symbol, text) ==
    \/ Occurs("$" \o symbol, str_upper(text))
    \/ Occurs("(" \o symbol \o ")", str_upper(text))
    \/ symbol \in CRYPTO_TICKERS

C29_Sorted ==
    response.kind = "tickers" =>
        \A m, n \in 1..Len(response.tickers) :
            m < n => TickerLess(response.tickers[m], response.tickers[n])

C29_UpperNoStopWord ==
    response.kind = "tickers" =>
        \A n \in 1..Len(response.tickers) :
            /\ str_upper(response.tickers[n]) = response.tickers[n]
            /\ response.tickers[n] \notin FALSE_POSITIVES

C29_OnlySurfaceForms ==
    response.kind = "tickers" =>
        \A n \in 1..Len(response.tickers) :
            SurfaceForm(response.tickers[n], response.text)

\* C29: extract_tickers returns a strictly ascending list (sorted, no
\* duplicates) of upper-case symbols none of which is a stop-list word,
\* and every symbol it returns stands in the text behind the sigil, in
\* parentheses, or is a symbol of the crypto allow-list.
C29_TickersSortedFromSurfaceForms ==
    C29_Sorted /\ C29_UpperNoStopWord /\ C29_OnlySurfaceForms

\* The number of lines of the message that carry the tag
LinesTagged(message, tag) ==
    Cardinality({k \in 1..Len(message) : message[k].tag = tag})

AtMostThree(items) == IF Len(items) < 3 THEN Len(items) ELSE 3

SummaryTags ==
    {"ai_summary", "bullet", "tickers", "action", "horizon", "confidence",
     "risks", "risk", "verify", "item"}

FallbackTags == {"fallback_notice", "detected_tickers", "detected_actions"}

\* C30: the message has exactly one of the two sections. With a summary:
\* the structured section, one line for each of the first 3 risks and the
\* first 3 verification items, and no line of the fallback section, even
\* when fallback lists are passed. Without one: the fallback notice, a
\* line of tickers and a line of actions when the list is not empty, and
\* no line of the structured section. The copy of the text is the text
\* when it has at most 500 characters, else its first 500 plus "...".
C30_OneSectionTextCapped ==
    response.kind = "format" =>
        LET m == response.message
            text_lines == {k \in 1..Len(m) : m[k].tag = "display_text"}
        IN  /\ IF response.summary # <<>>
               THEN LET sm == response.summary[1]
                    IN  /\ LinesTagged(m, "ai_summary") = 1
                        /\ \A t \in FallbackTags : LinesTagged(m, t) = 0
                        /\ LinesTagged(m, "risk")
                               = AtMostThree(sm.risks_or_unknowns)
                        /\ LinesTagged(m, "item")
                               = AtMostThree(sm.what_to_verify)
                        /\ LinesTagged(m, "bullet") = Len(sm.summary_bullets)
               ELSE /\ LinesTagged(m, "fallback_notice") = 1
                    /\ \A t \in SummaryTags : LinesTagged(m, t) = 0
                    /\ LinesTagged(m, "detected_tickers")
                           = (IF response.fallback_tickers # <<>>
                              THEN 1 ELSE 0)
                    /\ LinesTagged(m, "detected_actions")
                           = (IF response.fallback_actions # <<>>
                              THEN 1 ELSE 0)
            /\ Cardinality(text_lines) = 1
            /\ \A k \in text_lines :
                  /\ m[k].len <= 500 + 3
                  /\ (m[k].len > 500) <=> (response.tweet_text > 500)
                  /\ response.tweet_text <= 500
                         => m[k].len = response.tweet_text

\* A summary with four risks and four verification items for a text of
\* 600 characters, fallback lists passed along
C30_Witness ==
    /\ response.kind = "format"
    /\ response.tweet_text = 600
    /\ response.summary # <<>>
    /\ Len(response.summary[1].risks_or_unknowns) = 4
    /\ Len(response.summary[1].what_to_verify) = 4
    /\ response.fallback_tickers # <<>>
    /\ LinesTagged(response.message, "risk") = 3

\* The feed of the cycle shows one post id twice
SameIdTwice(c) ==
    /\ Len(c.tweets) = 2
    /\ c.tweets[1].tweet_id = c.tweets[2].tweet_id

\* C31: the posts of a cycle are handled one after another in feed order
\* (the index of the post in hand never decreases, and the dedup check of
\* the next post is the only way to leave a post), so a post id that the
\* feed shows twice is alerted at most once in that cycle.
C31_PostsSequentialAlertedOnce ==
    \A p \in Procs :
        /\ cyc[p].pc \in {"dedup", "summarize", "notify", "save", "update"}
              => cyc[p].i \in 0..Len(cyc[p].tweets)
        /\ SameIdTwice(cyc[p]) => cyc[p].stats.alerts_sent <= 1

\* The delays of a call that made n attempts of max, all but the last one
\* failed, and the last one failed too when failed_last: 2^k after the
\* failed attempt k (0-based) unless it was attempt max - 1
RECURSIVE ExpectedWaits(_, _, _)
ExpectedWaits(k, n, max) ==
    IF k >= n \/ k >= max - 1 THEN <<>>
    ELSE <<2 ^ k>> \o ExpectedWaits(k + 1, n, max)

\* C32: both retry loops wait 2^k seconds after every failed attempt k
\* (0-based) that is not the last of max_retries, and nothing after the
\* last one: a call whose attempts 0..n-1 failed has slept 1, 2, .. in that
\* order, a call that succeeded at attempt n only after the n failures
\* before it.
C32_BackoffExponential ==
    response.kind \in {"summarize", "send"} =>
        LET r == response.result
            ok == IF response.kind = "summarize" THEN r.summary # <<>>
                  ELSE r.sent
            failed == IF ok THEN r.attempts - 1 ELSE r.attempts
        IN  ~r.raised => r.waits = ExpectedWaits(0, failed, response.max)

\* The handles list_tracked_handles gave the cycle at its start
ListedHandles(c) == {c.handles[k].handle : k \in 1..Len(c.handles)}

\* The articles among the first max whose author, lower-cased, is tracked
TrackedAmongFirst(articles, max, tracked) ==
    SelectSeq(SubSeq(articles, 1,
                     IF Len(articles) < max THEN Len(articles) ELSE max),
              LAMBDA a : LowerStr(a.author) \in tracked)

C33_Fetch ==
    response.kind = "fetch" =>
        LET kept == IF response.status = "200"
                    THEN TrackedAmongFirst(response.articles, response.max,
                                           response.tracked)
                    ELSE <<>>
        IN  /\ ~response.raised
            /\ Len(response.tweets) <= response.max
            /\ \A k \in 1..Len(response.tweets) :
                  response.tweets[k].handle \in response.tracked
            /\ Len(response.tweets) = Len(kept)
            /\ \A k \in 1..Len(kept) :
                  response.tweets[k].tweet_id = kept[k].tweet_id

C33_Cycle ==
    \A p \in Procs :
        LET c == cyc[p]
        IN  /\ Len(c.tweets) <= max_tweets
            /\ \A k \in 1..Len(c.tweets) :
                  c.tweets[k].handle \in ListedHandles(c)
            /\ c.pc \in {"summarize", "notify", "save", "update"}
                  => CurTweet(c).handle \in ListedHandles(c)

\* C33: fetch_timeline_tweets returns, of the first max_tweets articles,
\* exactly those whose handle is in the tracked set it was given, so at
\* most max_tweets of them; every post a cycle summarizes, notifies or
\* persists is by an account list_tracked_handles returned at its start.
C33_OnlyTrackedAtMostMax == C33_Fetch /\ C33_Cycle

\* Two articles by a tracked account and room for one: the second is cut
C33_Witness ==
    /\ response.kind = "fetch"
    /\ response.status = "200"
    /\ response.max = 1
    /\ Len(response.articles) = 2
    /\ Len(response.tweets) = 1

\* The sink accepts the alert the cycle of p sends in this step
AlertAccepted(p) ==
    /\ cyc[p].pc = "notify"
    /\ cyc'[p].obs.notif = "sent"
    /\ cyc'[p].pc = "save"

\* The feed of the cycle shows the post in hand once
ShownOnce(c) ==
    \A k \in 1..Len(c.tweets) :
        c.tweets[k].tweet_id = CurTweet(c).tweet_id => k = c.i

C34_Step ==
    \A p \in Procs :
        (/\ AlertAccepted(p)
         /\ ShownOnce(cyc[p])
         /\ CurTweet(cyc[p]).tweet_id \in save_failed)
            => CurTweet(cyc[p]).tweet_id \notin alerted

\* C34: cycle after cycle, whatever fails, the sink accepts the alert of a
\* post id at most once: no alert is accepted for a post id whose alert was
\* accepted before (the step checked is that of a post the feed of its
\* cycle shows once and whose save has failed in an earlier cycle).
C34_AlertAcceptedAtMostOnce == [][C34_Step]_vars

\* The relations between the five counters of a stats record
StatsConsistent(s) ==
    /\ DOMAIN s = StatKeys
    /\ \A k \in StatKeys : s[k] \in Nat
    /\ s.tweets_processed + s.tweets_skipped_duplicate <= s.tweets_fetched
    /\ s.alerts_sent <= s.tweets_fetched - s.tweets_skipped_duplicate

C35_State ==
    /\ \A p \in Procs : StatsConsistent(cyc[p].stats)
    /\ response.kind = "stats" => StatsConsistent(response.stats)

C35_Step ==
    \A p \in Procs :
        (cyc[p].pc = "idle" /\ cyc'[p].pc # "idle")
            => cyc'[p].stats = Stats(0, 0, 0, 0, 0)

\* C35: in the stats of a cycle, while it runs and as returned, the five
\* counters are non-negative, tweets_processed + tweets_skipped_duplicate
\* <= tweets_fetched, and alerts_sent <= tweets_fetched -
\* tweets_skipped_duplicate; a cycle starts from five zeros whatever the
\* cycle before it counted.
C35_StatsConsistentFresh == [](C35_State) /\ [][C35_Step]_vars

\* A new cycle has started after a returned cycle that counted two posts
C35_Witness ==
    /\ first_saved[1] # <<>>
    /\ alerted # {}
    /\ cyc["sched"].pc = "list"
    /\ cyc["sched"].stats = Stats(0, 0, 0, 0, 0)

\* A step of the running cycle of p
InCycleStep(p) ==
    /\ cyc[p].pc \notin {"idle", "done"}
    /\ cyc'[p] # cyc[p]
    /\ cyc'[p].pc # "idle"

\* The marker update of the cycle of p fails in this step
MarkerUpdateFails(p) ==
    /\ InCycleStep(p)
    /\ cyc[p].pc = "update"
    /\ cyc'[p].obs.upd = "raised"

C36_Step ==
    \A p \in Procs :
        /\ InCycleStep(p)
              => Len(processed_tweets') - Len(processed_tweets)
                    = cyc'[p].stats.tweets_processed
                         - cyc[p].stats.tweets_processed
        /\ MarkerUpdateFails(p)
              => /\ cyc'[p].stats.errors = cyc[p].stats.errors + 1
                 /\ cyc'[p].stats.tweets_processed
                        = cyc[p].stats.tweets_processed
                 /\ cyc[p].stats.tweets_processed >= 1
                 /\ HasTweet(processed_tweets', CurTweet(cyc[p]).tweet_id)

\* C36: every step of a cycle adds as many records to the processed store
\* as it adds to tweets_processed, so the two agree when the cycle ends; a
\* marker update that fails after the insert adds one error and leaves the
\* post stored and counted.
C36_ProcessedCountsInserts == [][C36_Step]_vars

\* A cycle of one post ended: the insert succeeded, the marker update failed
C36_Witness ==
    /\ cyc["sched"].pc = "done"
    /\ cyc["sched"].obs.save = "saved"
    /\ cyc["sched"].obs.upd = "raised"
    /\ cyc["sched"].stats.tweets_processed = 1
    /\ cyc["sched"].stats.errors = 1
    /\ Len(processed_tweets) = 1

\* Attempt a of the call got every chunk accepted, one after the other
WholeAttempt(a) == response.accepted[a] = response.chunks

\* C37: send_telegram_alert returns True only when one single attempt got
\* every chunk of the message accepted, in chunk order (chunks accepted in
\* different attempts do not add up), and the cycle counts alerts_sent
\* only for such a post.
C37_TrueOnlyForWholeAttempt ==
    response.kind = "send" =>
        LET r == response.result
        IN  /\ r.sent => /\ ~r.raised
                         /\ r.attempts \in 1..response.max
                         /\ WholeAttempt(r.attempts)
            /\ response.alerts_sent \in {0, 1}
            /\ response.alerts_sent = 1
                  => r.sent /\ \E a \in 1..response.max : WholeAttempt(a)

\* Two chunks: the first attempt gets one accepted, the second the other
\* one only, the third both
C37_Witness ==
    /\ response.kind = "send"
    /\ response.chunks = 2
    /\ response.max = 3
    /\ response.accepted = <<1, 1, 2>>
    /\ response.result.sent
    /\ response.result.attempts = 3
    /\ response.alerts_sent = 1

\* C38: within one send_telegram_alert call no chunk is delivered to the
\* sink more than once: the sink takes at most as many messages as the
\* alert has chunks, whichever attempt fails at whichever chunk.
C38_NoChunkDeliveredTwice ==
    response.kind = "send" => response.result.taken <= response.chunks

\* Both cycles have found the post new in their dedup check and have
\* returned; their feeds are that one post
BothSawNew ==
    /\ \A p \in Procs :
          /\ cyc[p].pc = "done"
          /\ Len(cyc[p].tweets) = 1
          /\ cyc[p].obs.dedup = "new"
    /\ cyc["sched"].tweets[1].tweet_id = cyc["manual"].tweets[1].tweet_id

C39_State ==
    /\ \A id \in TweetIds : Len(RowsOf(id)) <= 1
    /\ BothSawNew
          => /\ Len(RowsOf(cyc["sched"].tweets[1].tweet_id)) = 1
             /\ cyc["sched"].stats.tweets_processed
                    + cyc["manual"].stats.tweets_processed <= 1

\* The cycle of p counts the post in hand as processed in this step
CountsProcessed(p) ==
    /\ cyc[p].pc = "save"
    /\ cyc'[p].stats.tweets_processed = cyc[p].stats.tweets_processed + 1

C39_Step ==
    \A p \in Procs :
        CountsProcessed(p)
            => /\ ~HasTweet(processed_tweets, CurTweet(cyc[p]).tweet_id)
               /\ HasTweet(processed_tweets', CurTweet(cyc[p]).tweet_id)
               /\ Len(processed_tweets') = Len(processed_tweets) + 1

\* C39: however the scheduled and the manual cycle interleave, the
\* processed store holds at most one record per post id, a cycle counts a
\* post as processed only in the step that inserts its record, and when
\* both cycles saw the same post as new the store ends with exactly one
\* record of it and at most one of them has counted it.
C39_OneRecordOneCount == [](C39_State) /\ [][C39_Step]_vars

\* Both cycles saw the post as new: one inserted it, the other's insert
\* failed on the unique id
C39_Witness ==
    /\ BothSawNew
    /\ cyc["sched"].obs.save = "IntegrityError"
    /\ cyc["manual"].obs.save = "saved"
    /\ cyc["sched"].stats.tweets_processed = 0
    /\ cyc["manual"].stats.tweets_processed = 1

\* The schedulers that are running
LiveSchedulers == {k \in 1..Len(schedulers) : schedulers[k].running}

C40_State ==
    /\ Cardinality(LiveSchedulers) <= 1
    /\ \A k \in LiveSchedulers : schedulers[k].jobs = <<"poll_tweets">>
    /\ LiveSchedulers = {_scheduler[k] : k \in 1..Len(_scheduler)}

\* A step that is a call of start_background_poller / of stop_scheduler
StartPollerStep == response'.kind = "scheduler" /\ UNCHANGED <<storeVars, cyc>>

StopSchedulerStep == response'.kind = "stopped" /\ UNCHANGED <<storeVars, cyc>>

C40_Step ==
    /\ StartPollerStep /\ _scheduler # <<>> =>
          /\ UNCHANGED schedVars
          /\ response'.returned = _scheduler[1]
    /\ StartPollerStep /\ _scheduler = <<>> =>
          /\ Len(schedulers') = Len(schedulers) + 1
          /\ SubSeq(schedulers', 1, Len(schedulers)) = schedulers
          /\ _scheduler' = <<Len(schedulers')>>
          /\ response'.returned = Len(schedulers')
    /\ StopSchedulerStep /\ _scheduler # <<>> =>
          /\ _scheduler' = <<>>
          /\ ~schedulers'[_scheduler[1]].running
          /\ Len(schedulers') = Len(schedulers)
    /\ StopSchedulerStep /\ _scheduler = <<>> => UNCHANGED schedVars

\* C40: after any sequence of start_background_poller and stop_scheduler
\* calls at most one scheduler is live, it is the one the global names and it
\* holds the one job "poll_tweets"; start while one is running returns that
\* scheduler and creates nothing, stop shuts it down and clears the global,
\* stop with none running changes nothing, and start after stop creates a
\* fresh scheduler.
C40_AtMostOneLiveScheduler == [](C40_State) /\ [][C40_Step]_vars

\* start, stop, start: the first scheduler is shut down, a second one runs
C40_Witness ==
    /\ Len(schedulers) = 2
    /\ ~schedulers[1].running
    /\ schedulers[2].running
    /\ _scheduler = <<2>>
    /\ response.kind = "scheduler"
    /\ response.returned = 2

====
